---- MODULE Spec2Model ----
(***************************************************************************)
(* Model of padel-booker: the start/status endpoints (api.py), the        *)
(* background booking job (utils.run_booking_background) and the player   *)
(* rotation engine (booker.PadelBooker).                                  *)
(***************************************************************************)
EXTENDS Integers, Sequences, FiniteSets, TLC

\* ---------------------------------------------------------------- bounds
\* number of start requests explored by the concurrent specification
MaxRequests == 2
\* largest value of MAX_BOOKING_ATTEMPTS explored by the single-job specification
MaxAttemptsCfg == 2
\* largest number of free cells on a page of the slot-finder specification
MaxCells == 3
\* largest max_days_back explored by the fallback-search specification
MaxDaysBack == 3

\* ------------------------------------------------------ program constants
\* default of MAX_BOOKING_ATTEMPTS (booker.py:266)
DefaultMaxAttempts == 2
\* seats filled by select_players: speler 2, 3, 4 (booker.py:119)
Seats == <<2, 3, 4>>

Threads == 1..MaxRequests

VARIABLES
    booking_status,  \* api.booking_status: the process-wide tracker
    api_pc,          \* position of the (single) event-loop handler of /api/book
    last_response,   \* response (or HTTP error) of the last /api/book request
    n_requests,      \* number of /api/book requests handled so far
    clock,           \* datetime.now(), as a logical clock
    job,             \* per job thread: position and locals of run_booking_background
    enable_booking,  \* value of is_booking_enabled() (ENABLE_BOOKING)
    max_attempts,    \* int(os.getenv("MAX_BOOKING_ATTEMPTS", "2"))
    page,            \* the elements found by ".slot.normal.free", in page order
    find_args,       \* arguments of a call of find_consecutive_slots
    find_result,     \* what that call returned, or that it raised
    fallback,        \* a call of find_consecutive_slots_with_fallback
    avail,           \* a call of check_availability: its arguments and outcome
    nav,             \* a booker constructed for a device mode, navigating to a date
    status_response, \* the fields of the reply to GET /api/status read so far
    form             \* a call of book_slot on the booking form of a found slot

vars == <<booking_status, api_pc, last_response, n_requests, clock, job,
          enable_booking, max_attempts, page, find_args, find_result, fallback,
          avail, nav, status_response, form>>

\* ------------------------------------------------------------ data model
NoTime == 0
NoPlayers == <<>>

NoResult == [status |-> "None", message |-> "None", players |-> NoPlayers]
ErrorResult(msg) == [status |-> "error", message |-> msg, players |-> NoPlayers]
SuccessResult(players) ==
    [status |-> "success", message |-> "Booking successful", players |-> players]

\* Python values of error_text: None, or a string held as its list of
\* space-separated words
NoneText == [is_none |-> TRUE, text |-> <<>>]
Str(words) == [is_none |-> FALSE, text |-> words]
\* truthiness of `if error_text:` (None and "" are both falsy)
Truthy(e) == ~e.is_none /\ Len(e.text) > 0

Organizer == "Org"
Outsider == "Zed"
Players == {"P1", "P2", "P3", "P4", "P5"}
Names == Players \cup {Organizer, Outsider}

\* ---------------------------------------------------- rejection messages
CodeTokens == {"[12]", "[7]"}
Rejection(n) == <<"[12]", n, "Jansen", "mag", "niet", "meer", "spelen">>
PrefixedRejection(n) == <<"Fout:">> \o Rejection(n)
NoSurname(n) == <<"[7]", n, "mag", "niet", "meer", "spelen">>
UnknownError == <<"Er", "ging", "iets", "mis">>
EmptyText == <<>>

NoMatch == "<no match>"

\* re.search(r"\[\d+] ([^ ]+) [^ ]+ mag niet meer spelen", error_text):
\* the leftmost position where a code word is followed by two words and
\* the four fixed words; group(1) is the first of the two words.
MatchesAt(w, i) ==
    /\ i + 6 <= Len(w)
    /\ w[i] \in CodeTokens
    /\ w[i + 3] = "mag"
    /\ w[i + 4] = "niet"
    /\ w[i + 5] = "meer"
    /\ w[i + 6] = "spelen"

ParseBlocked(w) ==
    LET hits == {i \in 1..Len(w) : MatchesAt(w, i)}
    IN  IF hits = {} THEN NoMatch
        ELSE w[(CHOOSE i \in hits : \A k \in hits : i <= k) + 1]

\* --------------------------------------------------------- list helpers
\* [p for p in s if p not in banned]
Without(s, banned) ==
    LET keep(p) == p \notin banned IN SelectSeq(s, keep)

Elems(s) == {s[i] : i \in 1..Len(s)}

\* select_players: for each seat, the first candidate (in list order) not
\* already used and offered by that seat's select control; stops at the
\* first seat that cannot be filled.
\* variant: a candidate already seated is not skipped
RECURSIVE FirstOffered_reuses(_, _, _)
FirstOffered_reuses(cands, used, offered) ==
    IF cands = <<>> THEN NoMatch
    ELSE IF Head(cands) \in offered THEN Head(cands)
    ELSE FirstOffered_reuses(Tail(cands), used, offered)

RECURSIVE FirstOffered(_, _, _)
FirstOffered(cands, used, offered) ==
    IF cands = <<>> THEN NoMatch
    ELSE IF Head(cands) \notin used /\ Head(cands) \in offered THEN Head(cands)
    ELSE FirstOffered(Tail(cands), used, offered)

RECURSIVE SelectFrom(_, _, _, _)
SelectFrom(k, cands, options, sel) ==
    IF k > Len(Seats) THEN sel
    ELSE LET c == FirstOffered(cands, Elems(sel), options[Seats[k]])
         IN  IF c = NoMatch THEN sel
             ELSE SelectFrom(k + 1, cands, options, Append(sel, c))

select_players(cands, options) == SelectFrom(1, cands, options, <<>>)

\* ------------------------------------------------------------- job state
IdleJob ==
    [pc |-> "idle",
     booker_first_name |-> "",
     player_candidates |-> <<>>,
     driver |-> FALSE,           \* a browser session is open
     device_mode |-> "",         \* booker.device_mode
     requested |-> "",           \* history: device_mode of the request that spawned the job
     wrote_started_at |-> FALSE, \* history: the tracker's started_at is the one this job wrote
     exc |-> FALSE,              \* an exception is propagating
     candidates |-> <<>>,
     blocked_players |-> {},
     attempt_count |-> 0,
     selected |-> <<>>,
     error_text |-> NoneText,
     alert |-> NoneText,         \* history: text of the JS alert found after the submit
     popup_shown |-> FALSE,      \* history: a displayed swal2-popup was on the page
     popup_consulted |-> FALSE,  \* history: the popup was looked up
     rejected |-> {},            \* history: the selections rejected so far
     raised |-> "",              \* message of the PlayerSelectionExhaustedError
     ret |-> NoPlayers,          \* value returned by book_slot (None as empty)
     navigations |-> 0,          \* history: calls of go_to_date
     submits |-> 0,              \* history: clicks on __make_submit
     confirms |-> 0,             \* history: clicks on __make_submit2
     signal |-> "none",          \* history: kind of the last observed rejection signal
     all_offered |-> TRUE,       \* history: the seat controls of the last selection offered every name
     named |-> {}]               \* history: non-organizer names rejected so far

InFlight(t) == job[t].pc \notin {"idle", "done"}

SetResult(r) == booking_status' = [booking_status EXCEPT !.result = r]


\* ------------------------------------------------- inputs of the model
\* request bodies (models.BookingRequest: booker_first_name, player_candidates)
\* device_mode defaults to "mobile" (models.py 14-17)
Request(name, pool) ==
    [booker_first_name |-> name, player_candidates |-> pool, device_mode |-> "mobile"]
DesktopRequest(name, pool) == [Request(name, pool) EXCEPT !.device_mode = "desktop"]

SmallPools == {<<"P1", "P2", "P3">>}
WidePools ==
    {<<>>,
     <<"P1", "P2">>,
     <<"P1", "P2", "P3">>,
     <<"P1", "P2", "P3", "P4">>,
     <<"P1", "P2", "P3", "P4", "P5">>,
     <<"P1", "P1", "P2", "P3">>,
     <<Organizer, "P1", "P2", "P3">>}

SmallRequests ==
    {Request("", <<"P1", "P2", "P3">>)} \cup {Request(Organizer, p) : p \in SmallPools}
WideRequests ==
    {Request("", <<"P1", "P2", "P3">>), DesktopRequest(Organizer, <<"P1", "P2", "P3">>)}
        \cup {Request(Organizer, p) : p \in WidePools}

\* texts a dialog or popup may show
SmallTexts == {Rejection("P1"), UnknownError}
WideTexts ==
    {Rejection(n) : n \in Names} \cup
    {PrefixedRejection("P2"), NoSurname("P1"), UnknownError, EmptyText}

\* option lists of the three seat controls players[2..4]
AllOffered == [s \in {2, 3, 4} |-> Names]
SmallOptions == {AllOffered}
WideOptions ==
    {AllOffered,
     [AllOffered EXCEPT ![2] = Names \ {"P1"}],
     [AllOffered EXCEPT ![3] = {"P1", "P2"}],
     [AllOffered EXCEPT ![4] = {}]}

\* outcome of a step that drives the browser: it works, it raises
\* NoSuchElementException/TimeoutException ("fail"), or it raises any other
\* exception ("raise")
Outcomes == {"ok", "fail", "raise"}

\* -------------------------------------------------------------- api.py
NoResponse ==
    [status |-> "none", code |-> 0, detail |-> "", started_at |-> NoTime,
     device_mode |-> "None"]

\* variant: a refused request also clears the result of the tracker
Reject_clears_result(code, detail) ==
    /\ last_response' = [status |-> "error", code |-> code, detail |-> detail,
                         started_at |-> NoTime, device_mode |-> "None"]
    /\ booking_status' = [booking_status EXCEPT !.result = NoResult]
    /\ UNCHANGED <<api_pc, job>>

\* book_court, lines 33-45: raise HTTPException(status_code, detail)
Reject(code, detail) ==
    /\ last_response' = [status |-> "error", code |-> code, detail |-> detail,
                         started_at |-> NoTime, device_mode |-> "None"]
    /\ UNCHANGED <<booking_status, api_pc, job>>

\* variant: the handler without the "already running" check of line 33
book_court_unguarded(Requests, limit) ==
    /\ api_pc = "idle"
    /\ n_requests < limit
    /\ \E req \in Requests, config \in BOOLEAN, credentials \in BOOLEAN :
         /\ n_requests' = n_requests + 1
         /\ IF ~config
              THEN Reject(400, "No configuration found")
            ELSE IF ~credentials
              THEN Reject(500, "BOOKER_USERNAME and BOOKER_PASSWORD must be set")
            ELSE /\ job' = [job EXCEPT ![n_requests + 1] =
                               [IdleJob EXCEPT
                                   !.pc = "spawned",
                                   !.booker_first_name = req.booker_first_name,
                                   !.player_candidates = req.player_candidates,
                                   !.requested = req.device_mode]]
                 /\ api_pc' = "respond"
                 /\ UNCHANGED <<booking_status, last_response>>
    /\ UNCHANGED <<clock, enable_booking, max_attempts, page, find_args, find_result,
                   fallback, avail, nav, status_response, form>>

\* book_court, lines 33-52: the checks and thread.start()
book_court(Requests, limit) ==
    /\ api_pc = "idle"
    /\ n_requests < limit
    /\ \E req \in Requests, config \in BOOLEAN, credentials \in BOOLEAN :
         /\ n_requests' = n_requests + 1
         /\ IF booking_status.running
              THEN Reject(400, "Booking already in progress")
            ELSE IF ~config
              THEN Reject(400, "No configuration found")
            ELSE IF ~credentials
              THEN Reject(500, "BOOKER_USERNAME and BOOKER_PASSWORD must be set")
            ELSE /\ job' = [job EXCEPT ![n_requests + 1] =
                               [IdleJob EXCEPT
                                   !.pc = "spawned",
                                   !.booker_first_name = req.booker_first_name,
                                   !.player_candidates = req.player_candidates,
                                   !.requested = req.device_mode]]
                 /\ api_pc' = "respond"
                 /\ UNCHANGED <<booking_status, last_response>>
    /\ UNCHANGED <<clock, enable_booking, max_attempts, page, find_args, find_result,
                   fallback, avail, nav, status_response, form>>

\* book_court, lines 54-58: the response reads booking_status["started_at"];
\* it has no device_mode key
book_court_respond ==
    /\ api_pc = "respond"
    /\ last_response' = [status |-> "started", code |-> 200,
                         detail |-> "Booking process started",
                         started_at |-> booking_status.started_at,
                         device_mode |-> "None"]
    /\ api_pc' = "idle"
    /\ UNCHANGED <<booking_status, n_requests, clock, job, enable_booking, max_attempts,
                   page, find_args, find_result, fallback, avail, nav, status_response, form>>

\* ---------------------------------------- utils.run_booking_background
Goto(t, label) == job' = [job EXCEPT ![t].pc = label]
ApiUnchanged ==
    UNCHANGED <<api_pc, last_response, n_requests, enable_booking, max_attempts,
                page, find_args, find_result, fallback, avail, nav, status_response, form>>

\* the frame of run_booking_background alone: everything that belongs to a
\* finished call of book_slot is dropped
Outer(j) ==
    [IdleJob EXCEPT !.booker_first_name = j.booker_first_name,
                    !.player_candidates = j.player_candidates,
                    !.driver = j.driver,
                    !.device_mode = j.device_mode,
                    !.requested = j.requested,
                    !.wrote_started_at = j.wrote_started_at,
                    !.exc = j.exc]

\* an exception that nothing in booker.py catches leaves the `with` block
Propagate(t) == job' = [job EXCEPT ![t] = [Outer(job[t]) EXCEPT !.exc = TRUE, !.pc = "exit"]]

\* line 101
set_running(t) ==
    /\ job[t].pc = "spawned"
    /\ booking_status' = [booking_status EXCEPT !.running = TRUE]
    /\ Goto(t, "reset_result")
    /\ UNCHANGED clock /\ ApiUnchanged

\* line 102
reset_result(t) ==
    /\ job[t].pc = "reset_result"
    /\ SetResult(NoResult)
    /\ Goto(t, "set_started_at")
    /\ UNCHANGED clock /\ ApiUnchanged

\* line 103
set_started_at(t) ==
    /\ job[t].pc = "set_started_at"
    /\ clock' = clock + 1
    /\ booking_status' = [booking_status EXCEPT !.started_at = clock + 1]
    /\ job' = [u \in Threads |->
                 IF u = t THEN [job[u] EXCEPT !.wrote_started_at = TRUE, !.pc = "check_inputs"]
                 ELSE [job[u] EXCEPT !.wrote_started_at = FALSE]]
    /\ ApiUnchanged

\* variant: the missing-input return happens outside the try/finally
check_inputs_early_return(t) ==
    /\ job[t].pc = "check_inputs"
    /\ IF job[t].booker_first_name = "" \/ job[t].player_candidates = <<>>
         THEN /\ SetResult(ErrorResult("booker_first_name and player_candidates must be provided"))
              /\ job' = [job EXCEPT ![t] = [IdleJob EXCEPT !.pc = "done"]]
         ELSE /\ Goto(t, "open")
              /\ UNCHANGED booking_status
    /\ UNCHANGED clock /\ ApiUnchanged

\* variant: only the organizer name is checked
check_inputs_name_only(t) ==
    /\ job[t].pc = "check_inputs"
    /\ IF job[t].booker_first_name = ""
         THEN /\ SetResult(ErrorResult("booker_first_name and player_candidates must be provided"))
              /\ Goto(t, "finally")
         ELSE /\ Goto(t, "open")
              /\ UNCHANGED booking_status
    /\ UNCHANGED clock /\ ApiUnchanged

\* lines 105-110
check_inputs(t) ==
    /\ job[t].pc = "check_inputs"
    /\ IF job[t].booker_first_name = "" \/ job[t].player_candidates = <<>>
         THEN /\ SetResult(ErrorResult("booker_first_name and player_candidates must be provided"))
              /\ Goto(t, "finally")
         ELSE /\ Goto(t, "open")
              /\ UNCHANGED booking_status
    /\ UNCHANGED clock /\ ApiUnchanged

\* line 112, PadelBooker() (booker.py 25-40): no device_mode is passed, so
\* the default "mobile" is used; setup_driver opens the browser session or
\* raises; the strategy lookup for the default mode cannot fail
PadelBooker_init(t) ==
    /\ job[t].pc = "open"
    /\ \E o \in {"ok", "raise"} :
         IF o = "ok"
           THEN job' = [job EXCEPT ![t].driver = TRUE, ![t].device_mode = "mobile",
                                   ![t].pc = "login"]
           ELSE job' = [job EXCEPT ![t].exc = TRUE, ![t].pc = "except"]
    /\ UNCHANGED <<booking_status, clock>> /\ ApiUnchanged

\* variant: the login-failure return leaves without running __exit__
login_leak(t) ==
    /\ job[t].pc = "login"
    /\ \E o \in Outcomes :
         CASE o = "ok" -> Goto(t, "go_to_date") /\ UNCHANGED booking_status
           [] o = "fail" -> SetResult(ErrorResult("Login failed")) /\ Goto(t, "finally")
           [] o = "raise" -> Propagate(t) /\ UNCHANGED booking_status
    /\ UNCHANGED clock /\ ApiUnchanged

\* variant: the job goes on after recording the login failure
login_no_return(t) ==
    /\ job[t].pc = "login"
    /\ \E o \in Outcomes :
         CASE o = "ok" -> Goto(t, "go_to_date") /\ UNCHANGED booking_status
           [] o = "fail" -> SetResult(ErrorResult("Login failed")) /\ Goto(t, "go_to_date")
           [] o = "raise" -> Propagate(t) /\ UNCHANGED booking_status
    /\ UNCHANGED clock /\ ApiUnchanged

\* lines 114-119 with booker.login (booker.py 48-70)
login(t) ==
    /\ job[t].pc = "login"
    /\ \E o \in Outcomes :
         CASE o = "ok" -> Goto(t, "go_to_date") /\ UNCHANGED booking_status
           [] o = "fail" -> SetResult(ErrorResult("Login failed")) /\ Goto(t, "exit")
           [] o = "raise" -> Propagate(t) /\ UNCHANGED booking_status
    /\ UNCHANGED clock /\ ApiUnchanged

\* line 122
go_to_date(t) ==
    /\ job[t].pc = "go_to_date"
    /\ \E o \in {"ok", "raise"} :
         IF o = "ok"
           THEN job' = [job EXCEPT ![t].navigations = @ + 1,
                                   ![t].pc = "wait_for_matrix_date"]
           ELSE Propagate(t)
    /\ UNCHANGED <<booking_status, clock>> /\ ApiUnchanged

\* line 123
wait_for_matrix_date(t) ==
    /\ job[t].pc = "wait_for_matrix_date"
    /\ \E o \in {"ok", "raise"} :
         IF o = "ok" THEN Goto(t, "find_consecutive_slots")
         ELSE Propagate(t)
    /\ UNCHANGED <<booking_status, clock>> /\ ApiUnchanged

\* lines 126-135
find_consecutive_slots(t) ==
    /\ job[t].pc = "find_consecutive_slots"
    /\ \E o \in {"found", "none", "raise"} :
         CASE o = "found" -> Goto(t, "book_slot") /\ UNCHANGED booking_status
           [] o = "none" -> SetResult(ErrorResult("No available slots found")) /\ Goto(t, "exit")
           [] o = "raise" -> Propagate(t) /\ UNCHANGED booking_status
    /\ UNCHANGED clock /\ ApiUnchanged


\* ------------------------------------------------ booker.PadelBooker
\* book_slot returns `value` to run_booking_background (utils.py 138-140);
\* the locals of try_booking_with_player_rotation go out of scope
Return(t, j, value) ==
    job' = [job EXCEPT ![t] =
               [j EXCEPT !.ret = value,
                         !.candidates = <<>>,
                         !.blocked_players = {},
                         !.attempt_count = 0,
                         !.selected = <<>>,
                         !.error_text = NoneText,
                         !.rejected = {},
                         !.pc = "map_result"]]

\* return None (booker.py 327, 347, 366, 399, 403)
ReturnNone(t, j) == Return(t, j, NoPlayers)

\* raise PlayerSelectionExhaustedError(msg), caught by book_slot (397-399)
RaiseExhausted(t, j, msg) == ReturnNone(t, [j EXCEPT !.raised = msg])

\* book_slot, lines 381-389 (click the slot, wait for the form, select the
\* end time) and the entry of try_booking_with_player_rotation, lines 264-267
book_slot(t) ==
    /\ job[t].pc = "book_slot"
    /\ \E o \in Outcomes :
         CASE o = "ok" ->
                job' = [job EXCEPT ![t].candidates = job[t].player_candidates,
                                   ![t].blocked_players = {},
                                   ![t].attempt_count = 0,
                                   ![t].pc = "rotation"]
           [] o = "fail" -> ReturnNone(t, job[t])
           [] o = "raise" -> Propagate(t)
    /\ UNCHANGED <<booking_status, clock>> /\ ApiUnchanged

\* variant: attempt_count is never incremented
rotation_no_count(t, Options) ==
    /\ job[t].pc = "rotation"
    /\ LET j == job[t] IN
       IF Len(j.candidates) >= 3 /\ j.attempt_count < max_attempts
         THEN LET cands == Without(j.candidates, j.blocked_players)
                  j1 == [j EXCEPT !.candidates = cands]
              IN  IF Len(cands) < 3
                    THEN RaiseExhausted(t, j1, "Not enough players available after removing blocked players")
                    ELSE \E options \in Options, o \in {"ok", "fail"} :
                           LET sel == select_players(cands, options) IN
                           IF o = "fail"
                             THEN ReturnNone(t, j1)
                           ELSE IF Len(sel) < 3
                             THEN RaiseExhausted(t, [j1 EXCEPT !.selected = sel],
                                                 "Could not select enough players")
                           ELSE job' = [job EXCEPT ![t] =
                                           [j1 EXCEPT !.selected = sel,
                                                      !.all_offered = (options = AllOffered),
                                                      !.pc = "submit"]]
         ELSE IF j.attempt_count >= max_attempts
                THEN RaiseExhausted(t, j, "Maximum booking attempts reached")
                ELSE RaiseExhausted(t, j, "Not enough players available for booking")
    /\ UNCHANGED <<booking_status, clock>> /\ ApiUnchanged

\* variant: the selection is submitted even when a seat stayed empty
rotation_accepts_short(t, Options) ==
    /\ job[t].pc = "rotation"
    /\ LET j == job[t] IN
       IF Len(j.candidates) >= 3 /\ j.attempt_count < max_attempts
         THEN LET cands == Without(j.candidates, j.blocked_players)
                  j1 == [j EXCEPT !.attempt_count = @ + 1, !.candidates = cands]
              IN  IF Len(cands) < 3
                    THEN RaiseExhausted(t, j1, "Not enough players available after removing blocked players")
                    ELSE \E options \in Options, o \in {"ok", "fail"} :
                           LET sel == select_players(cands, options) IN
                           IF o = "fail"
                             THEN ReturnNone(t, j1)
                           ELSE job' = [job EXCEPT ![t] =
                                           [j1 EXCEPT !.selected = sel,
                                                      !.all_offered = (options = AllOffered),
                                                      !.pc = "submit"]]
         ELSE IF j.attempt_count >= max_attempts
                THEN RaiseExhausted(t, j, "Maximum booking attempts reached")
                ELSE RaiseExhausted(t, j, "Not enough players available for booking")
    /\ UNCHANGED <<booking_status, clock>> /\ ApiUnchanged

\* try_booking_with_player_rotation, lines 269-289 and 368-374: the loop
\* test, the removal of blocked players and the selection of three seats
rotation(t, Options) ==
    /\ job[t].pc = "rotation"
    /\ LET j == job[t] IN
       IF Len(j.candidates) >= 3 /\ j.attempt_count < max_attempts
         THEN LET cands == Without(j.candidates, j.blocked_players)
                  j1 == [j EXCEPT !.attempt_count = @ + 1, !.candidates = cands]
              IN  IF Len(cands) < 3
                    THEN RaiseExhausted(t, j1, "Not enough players available after removing blocked players")
                    ELSE \E options \in Options, o \in {"ok", "fail"} :
                           LET sel == select_players(cands, options) IN
                           IF o = "fail"
                             THEN ReturnNone(t, j1)
                           ELSE IF Len(sel) < 3
                             THEN RaiseExhausted(t, [j1 EXCEPT !.selected = sel],
                                                 "Could not select enough players")
                           ELSE job' = [job EXCEPT ![t] =
                                           [j1 EXCEPT !.selected = sel,
                                                      !.all_offered = (options = AllOffered),
                                                      !.pc = "submit"]]
         ELSE IF j.attempt_count >= max_attempts
                THEN RaiseExhausted(t, j, "Maximum booking attempts reached")
                ELSE RaiseExhausted(t, j, "Not enough players available for booking")
    /\ UNCHANGED <<booking_status, clock>> /\ ApiUnchanged

\* lines 291-294: click the 'Verder' button
submit(t) ==
    /\ job[t].pc = "submit"
    /\ \E o \in Outcomes :
         CASE o = "ok" -> job' = [job EXCEPT ![t].submits = @ + 1, ![t].pc = "observe"]
           [] o = "fail" -> ReturnNone(t, job[t])
           [] o = "raise" -> Propagate(t)
    /\ UNCHANGED <<booking_status, clock>> /\ ApiUnchanged

\* states of the swal2-popup element
NoPopup == [found |-> FALSE, displayed |-> FALSE, text |-> <<>>]
Popups(Texts) ==
    {NoPopup} \cup {[found |-> TRUE, displayed |-> d, text |-> x] : d \in BOOLEAN, x \in Texts}

\* what the site showed after a submit: nothing, a rejection that names the
\* organizer, one that names someone else, or a text the pattern does not match
SignalKind(e, organizer) ==
    IF e.is_none THEN "none"
    ELSE IF ParseBlocked(e.text) = NoMatch THEN "unrecognized"
    ELSE IF ParseBlocked(e.text) = organizer THEN "organizer"
    ELSE "player"

\* lines 296-314: the text of the JS alert, else of a displayed popup, else None
ReadErrorText(alert, popup) ==
    IF ~alert.is_none THEN alert
    ELSE IF popup.found /\ popup.displayed THEN Str(popup.text)
    ELSE NoneText

observe(t, Texts) ==
    /\ job[t].pc = "observe"
    /\ \E alert \in {NoneText} \cup {Str(x) : x \in Texts}, popup \in Popups(Texts) :
         LET e == ReadErrorText(alert, popup) IN
         job' = [job EXCEPT
                    ![t].error_text = e,
                    ![t].alert = alert,
                    ![t].popup_shown = (popup.found /\ popup.displayed),
                    ![t].popup_consulted = alert.is_none,
                    ![t].signal = SignalKind(e, job[t].booker_first_name),
                    ![t].named = IF SignalKind(e, job[t].booker_first_name) = "player"
                                   THEN @ \cup {ParseBlocked(e.text)} ELSE @,
                    ![t].pc = "handle"]
    /\ UNCHANGED <<booking_status, clock>> /\ ApiUnchanged

\* the observations of the last submit are dropped when it has been handled
Unobserved(j) ==
    [j EXCEPT !.alert = NoneText, !.popup_shown = FALSE, !.popup_consulted = FALSE]

\* variant: a rejected player is not recorded before the retry
handle_no_block(t) ==
    /\ job[t].pc = "handle"
    /\ LET j == Unobserved(job[t]) IN
       IF Truthy(j.error_text)
         THEN LET blocked == ParseBlocked(j.error_text.text) IN
              IF blocked # NoMatch
                THEN IF blocked = j.booker_first_name
                       THEN ReturnNone(t, j)
                       ELSE job' = [job EXCEPT ![t] =
                                       [j EXCEPT !.rejected = @ \cup {j.selected},
                                                 !.pc = "rotation"]]
                ELSE ReturnNone(t, j)
         ELSE job' = [job EXCEPT ![t] = [j EXCEPT !.pc = "confirm"]]
    /\ UNCHANGED <<booking_status, clock>> /\ ApiUnchanged

\* variant: a rejection of the booker is handled like any other rejection
handle_ignores_booker(t) ==
    /\ job[t].pc = "handle"
    /\ LET j == Unobserved(job[t]) IN
       IF Truthy(j.error_text)
         THEN LET blocked == ParseBlocked(j.error_text.text) IN
              IF blocked # NoMatch
                THEN LET bp == j.blocked_players \cup {blocked}
                         cands == Without(j.player_candidates, bp)
                         j1 == [j EXCEPT !.blocked_players = bp, !.candidates = cands,
                                               !.rejected = @ \cup {j.selected}]
                     IN  IF Len(cands) < 3
                           THEN RaiseExhausted(t, j1, "Not enough players available after removing blocked players")
                           ELSE job' = [job EXCEPT ![t] = [j1 EXCEPT !.pc = "rotation"]]
                ELSE ReturnNone(t, j)
         ELSE job' = [job EXCEPT ![t] = [j EXCEPT !.pc = "confirm"]]
    /\ UNCHANGED <<booking_status, clock>> /\ ApiUnchanged

\* variant: the blocked set keeps only the name rejected last
handle_forgets_blocked(t) ==
    /\ job[t].pc = "handle"
    /\ LET j == Unobserved(job[t]) IN
       IF Truthy(j.error_text)
         THEN LET blocked == ParseBlocked(j.error_text.text) IN
              IF blocked # NoMatch
                THEN IF blocked = j.booker_first_name
                       THEN ReturnNone(t, j)
                       ELSE LET bp == {blocked}
                                cands == Without(j.player_candidates, bp)
                                j1 == [j EXCEPT !.blocked_players = bp, !.candidates = cands,
                                               !.rejected = @ \cup {j.selected}]
                            IN  IF Len(cands) < 3
                                  THEN RaiseExhausted(t, j1, "Not enough players available after removing blocked players")
                                  ELSE job' = [job EXCEPT ![t] = [j1 EXCEPT !.pc = "rotation"]]
                ELSE ReturnNone(t, j)
         ELSE job' = [job EXCEPT ![t] = [j EXCEPT !.pc = "confirm"]]
    /\ UNCHANGED <<booking_status, clock>> /\ ApiUnchanged

\* lines 316-348: interpret the rejection text
handle(t) ==
    /\ job[t].pc = "handle"
    /\ LET j == Unobserved(job[t]) IN
       IF Truthy(j.error_text)
         THEN LET blocked == ParseBlocked(j.error_text.text) IN
              IF blocked # NoMatch
                THEN IF blocked = j.booker_first_name
                       THEN ReturnNone(t, j)
                       ELSE LET bp == j.blocked_players \cup {blocked}
                                cands == Without(j.player_candidates, bp)
                                j1 == [j EXCEPT !.blocked_players = bp, !.candidates = cands,
                                               !.rejected = @ \cup {j.selected}]
                            IN  IF Len(cands) < 3
                                  THEN RaiseExhausted(t, j1, "Not enough players available after removing blocked players")
                                  ELSE job' = [job EXCEPT ![t] = [j1 EXCEPT !.pc = "rotation"]]
                ELSE ReturnNone(t, j)
         ELSE job' = [job EXCEPT ![t] = [j EXCEPT !.pc = "confirm"]]
    /\ UNCHANGED <<booking_status, clock>> /\ ApiUnchanged

\* lines 349-366: the final confirmation, skipped in dry-run mode
confirm(t) ==
    /\ job[t].pc = "confirm"
    /\ LET j == job[t] IN
       IF enable_booking
         THEN \E o \in Outcomes :
                CASE o = "ok" -> Return(t, [j EXCEPT !.confirms = @ + 1], j.selected)
                  [] o = "fail" -> ReturnNone(t, j)
                  [] o = "raise" -> Propagate(t)
         ELSE Return(t, j, j.selected)
    /\ UNCHANGED <<booking_status, clock>> /\ ApiUnchanged

\* utils.py lines 142-152: map book_slot's return value to the result
map_result(t) ==
    /\ job[t].pc = "map_result"
    /\ IF job[t].ret # NoPlayers
         THEN SetResult(SuccessResult(job[t].ret))
         ELSE SetResult(ErrorResult("Booking failed"))
    /\ job' = [job EXCEPT ![t] = [Outer(job[t]) EXCEPT !.pc = "exit"]]
    /\ UNCHANGED clock /\ ApiUnchanged

\* PadelBooker.__exit__ (booker.py 42-46), run when the `with` block is left
PadelBooker_exit(t) ==
    /\ job[t].pc = "exit"
    /\ job' = [job EXCEPT ![t].driver = FALSE,
                          ![t].pc = IF job[t].exc THEN "except" ELSE "finally"]
    /\ UNCHANGED <<booking_status, clock>> /\ ApiUnchanged

\* variant: the exception is swallowed without recording a result
except_handler_swallow(t) ==
    /\ job[t].pc = "except"
    /\ job' = [job EXCEPT ![t].exc = FALSE, ![t].pc = "finally"]
    /\ UNCHANGED <<booking_status, clock>> /\ ApiUnchanged

\* utils.py lines 154-155
except_handler(t) ==
    /\ job[t].pc = "except"
    /\ SetResult(ErrorResult("Error"))
    /\ job' = [job EXCEPT ![t].exc = FALSE, ![t].pc = "finally"]
    /\ UNCHANGED clock /\ ApiUnchanged

\* utils.py lines 156-157; the thread ends and its locals are gone
finally_handler(t) ==
    /\ job[t].pc = "finally"
    /\ booking_status' = [booking_status EXCEPT !.running = FALSE]
    /\ job' = [job EXCEPT ![t] = [IdleJob EXCEPT !.pc = "done", !.driver = job[t].driver,
                                                 !.wrote_started_at = job[t].wrote_started_at]]
    /\ UNCHANGED clock /\ ApiUnchanged

\* ------------------------------------- booker.find_consecutive_slots
Courts == {"A", "B"}

\* datetime.strptime(x, "%H:%M") as minutes since midnight; -1 stands for
\* the ValueError it raises on a text that is not a time of day
Minutes(x) ==
    CASE x = "00:00" -> 0
      [] x = "20:00" -> 1200
      [] x = "21:00" -> 1260
      [] x = "21:30" -> 1290
      [] x = "22:00" -> 1320
      [] x = "22:30" -> 1350
      [] x = "23:00" -> 1380
      [] OTHER -> -1

ValidTime(x) == Minutes(x) >= 0

\* variant: the signed difference, as total_seconds() gives it
SecondsDiv60_signed(s, e) == Minutes(e) - Minutes(s)

\* (strptime(e) - strptime(s)).seconds // 60: a negative timedelta is
\* normalised to days = -1 and seconds within one day
SecondsDiv60(s, e) == (Minutes(e) - Minutes(s)) % 1440

\* int(duration_hours * 60); duration_hours is held in half hours, which
\* are exact as floats
NeededMinutes(duration_hours) == duration_hours * 30

\* a period text, held as [t.strip() for t in period_text.split("-")]
NoDash == <<"21:00">>            \* "21:00"
Blank == <<"", "">>              \* " - "
Periods ==
    {<<"21:00", "22:00">>, <<"22:00", "23:00">>, <<"23:00", "00:00">>,
     <<"21:00", "23:00">>, <<"23:00", "24:00">>, NoDash, Blank}

\* a free cell: its title attribute and its period text
Cells == [court : Courts, period : Periods]

IsInterval(c) == Len(c.period) = 2 /\ ValidTime(c.period[1]) /\ ValidTime(c.period[2])

\* two cells of one court that cover a common minute, or start together
Overlap(c, d) ==
    /\ c.court = d.court
    /\ Len(c.period) = 2 /\ Len(d.period) = 2
    /\ ValidTime(c.period[1]) /\ ValidTime(d.period[1])
    /\ \/ c.period[1] = d.period[1]
       \/ /\ IsInterval(c) /\ IsInterval(d)
          /\ Minutes(c.period[1]) < Minutes(d.period[1]) + SecondsDiv60(d.period[1], d.period[2])
          /\ Minutes(d.period[1]) < Minutes(c.period[1]) + SecondsDiv60(c.period[1], c.period[2])

\* the pages of the schedule matrix: the free cells of one court do not
\* overlap; their order on the page is arbitrary
Pages ==
    {q \in UNION {[1..n -> Cells] : n \in 0..MaxCells} :
        \A i, k \in DOMAIN q : i # k => ~Overlap(q[i], q[k])}

StartTimes == {"21:00", "22:00", "23:00"}
Durations == {2, 3, 4}
FindArgs == [start_time : StartTimes, duration_hours : Durations]

NotCalled == [status |-> "not_called", slot |-> 0, end_time |-> "None"]
Raised == [status |-> "raised", slot |-> 0, end_time |-> "None"]
ReturnedNone == [status |-> "returned", slot |-> 0, end_time |-> "None"]
Returned(slot, end_time) == [status |-> "returned", slot |-> slot, end_time |-> end_time]

\* lines 206-217: a cell enters slots_by_court when its text splits into
\* exactly two parts (anything else raises ValueError and is skipped)
Grouped(p) == {i \in 1..Len(p) : Len(p[i].period) = 2}

\* the keys of slots_by_court, in insertion order
RECURSIVE CourtOrderFrom(_, _, _)
CourtOrderFrom(p, i, acc) ==
    IF i > Len(p) THEN acc
    ELSE IF i \in Grouped(p) /\ p[i].court \notin Elems(acc)
      THEN CourtOrderFrom(p, i + 1, Append(acc, p[i].court))
    ELSE CourtOrderFrom(p, i + 1, acc)

slots_by_court(p) == CourtOrderFrom(p, 1, <<>>)

\* slots_by_court[court], as indices into the page
SlotsOf(p, court) ==
    LET idx == [i \in 1..Len(p) |-> i]
        mine(i) == i \in Grouped(p) /\ p[i].court = court
    IN  SelectSeq(idx, mine)

\* line 223, slots.sort(key=strptime(start)): a stable sort
RECURSIVE InsertByStart(_, _, _)
InsertByStart(p, sorted, i) ==
    IF sorted = <<>> THEN <<i>>
    ELSE IF Minutes(p[Head(sorted)].period[1]) <= Minutes(p[i].period[1])
      THEN <<Head(sorted)>> \o InsertByStart(p, Tail(sorted), i)
    ELSE <<i>> \o sorted

RECURSIVE SortFrom(_, _, _)
SortFrom(p, rest, acc) ==
    IF rest = <<>> THEN acc
    ELSE SortFrom(p, Tail(rest), InsertByStart(p, acc, Head(rest)))

SortByStart(p, slots) == SortFrom(p, slots, <<>>)

\* variant: the next cell is absorbed without comparing its start with last_end
RECURSIVE Chain_ignores_gap(_, _, _, _, _, _)
Chain_ignores_gap(p, slots, j, total, last_end, needed) ==
    IF total < needed /\ j + 1 <= Len(slots)
      THEN LET nxt == p[slots[j + 1]].period IN
           IF ~ValidTime(nxt[2])
             THEN [raised |-> TRUE, total |-> total, last_end |-> last_end]
           ELSE Chain_ignores_gap(p, slots, j + 1, total + SecondsDiv60(nxt[1], nxt[2]),
                                  nxt[2], needed)
      ELSE [raised |-> FALSE, total |-> total, last_end |-> last_end]

\* variant: contiguous cells are absorbed even when the requirement is met
RECURSIVE Chain_absorbs_all(_, _, _, _, _, _)
Chain_absorbs_all(p, slots, j, total, last_end, needed) ==
    IF j + 1 <= Len(slots)
      THEN LET nxt == p[slots[j + 1]].period IN
           IF nxt[1] = last_end
             THEN IF ~ValidTime(nxt[2])
                    THEN [raised |-> TRUE, total |-> total, last_end |-> last_end]
                  ELSE Chain_absorbs_all(p, slots, j + 1, total + SecondsDiv60(nxt[1], nxt[2]),
                                         nxt[2], needed)
           ELSE [raised |-> FALSE, total |-> total, last_end |-> last_end]
      ELSE [raised |-> FALSE, total |-> total, last_end |-> last_end]

\* lines 236-246: absorb the next sorted cell while it starts at last_end
RECURSIVE Chain(_, _, _, _, _, _)
Chain(p, slots, j, total, last_end, needed) ==
    IF total < needed /\ j + 1 <= Len(slots)
      THEN LET nxt == p[slots[j + 1]].period IN
           IF nxt[1] = last_end
             THEN IF ~ValidTime(nxt[2])
                    THEN [raised |-> TRUE, total |-> total, last_end |-> last_end]
                  ELSE Chain(p, slots, j + 1, total + SecondsDiv60(nxt[1], nxt[2]),
                             nxt[2], needed)
           ELSE [raised |-> FALSE, total |-> total, last_end |-> last_end]
      ELSE [raised |-> FALSE, total |-> total, last_end |-> last_end]

\* lines 225-255: the cells of one (sorted) court, from position i on
RECURSIVE ScanCourt(_, _, _, _, _)
ScanCourt(p, slots, i, start_time, needed) ==
    IF i > Len(slots) THEN ReturnedNone
    ELSE LET period == p[slots[i]].period IN
         IF period[1] # start_time
           THEN ScanCourt(p, slots, i + 1, start_time, needed)
         ELSE IF ~ValidTime(period[2]) THEN Raised
         ELSE LET c == Chain(p, slots, i, SecondsDiv60(period[1], period[2]),
                             period[2], needed)
              IN  IF c.raised THEN Raised
                  ELSE IF c.total >= needed THEN Returned(slots[i], c.last_end)
                  ELSE ScanCourt(p, slots, i + 1, start_time, needed)

\* lines 221-223 and 257-258: the courts in dictionary order; the sort
\* raises when a start text is not a time
RECURSIVE ScanCourts(_, _, _, _, _)
ScanCourts(p, courts, k, start_time, needed) ==
    IF k > Len(courts) THEN ReturnedNone
    ELSE LET slots == SlotsOf(p, courts[k]) IN
         IF \E i \in Elems(slots) : ~ValidTime(p[i].period[1]) THEN Raised
         ELSE LET r == ScanCourt(p, SortByStart(p, slots), 1, start_time, needed)
              IN  IF r = ReturnedNone
                    THEN ScanCourts(p, courts, k + 1, start_time, needed)
                  ELSE r

\* PadelBooker.find_consecutive_slots on a page
find_consecutive_slots_on(p, start_time, duration_hours) ==
    ScanCourts(p, slots_by_court(p), 1, start_time, NeededMinutes(duration_hours))

\* one call of find_consecutive_slots on the displayed page
call_find_consecutive_slots ==
    /\ find_result = NotCalled
    /\ find_result' = find_consecutive_slots_on(page, find_args.start_time,
                                                find_args.duration_hours)
    /\ UNCHANGED <<booking_status, api_pc, last_response, n_requests, clock, job,
                   enable_booking, max_attempts, page, find_args, fallback, avail, nav,
                   status_response, form>>

\* ------------------------- PadelBooker.find_consecutive_slots_with_fallback
\* (the method is called by tests/test_integration_booking_flow.py; its body
\* follows section 4.3 of the design)
\* dates are day numbers; day 0 is a Monday
Weekday(d) == d % 7
Saturday == 5
Sunday == 6
IsWeekend(d) == Weekday(d) \in {Saturday, Sunday}

\* variant: the day before, weekend or not
PreviousBusinessDay_any_day(d) == d - 1

\* the previous business day: a weekend is skipped in the same step
PreviousBusinessDay(d) ==
    IF Weekday(d - 1) = Sunday THEN d - 3
    ELSE IF Weekday(d - 1) = Saturday THEN d - 2
    ELSE d - 1

NoDate == -1
NoFallback ==
    [pc |-> "idle", date |-> NoDate, max_days_back |-> 0, current |-> NoDate,
     consumed |-> 0, visited |-> <<>>, found_date |-> NoDate]

\* the requested dates: two weeks, weekends included
FallbackDates == 14..27

FallbackCalls ==
    {[NoFallback EXCEPT !.pc = "navigate", !.date = d, !.current = d, !.max_days_back = m] :
        d \in FallbackDates, m \in 0..MaxDaysBack}

FallbackUnchanged ==
    UNCHANGED <<booking_status, api_pc, last_response, n_requests, clock, job,
                enable_booking, max_attempts, page, find_args, find_result, avail, nav,
                status_response, form>>

\* go_to_date(current) and wait_for_matrix_date(current)
fallback_navigate ==
    /\ fallback.pc = "navigate"
    /\ fallback' = [fallback EXCEPT !.visited = Append(@, fallback.current),
                                    !.pc = "search"]
    /\ FallbackUnchanged

\* variant: the search goes on whatever number of days was consumed
fallback_search_unbounded ==
    /\ fallback.pc = "search"
    /\ \E found \in BOOLEAN :
         IF found
           THEN fallback' = [fallback EXCEPT !.found_date = fallback.current, !.pc = "found"]
           ELSE fallback' = [fallback EXCEPT
                                !.current = PreviousBusinessDay(fallback.current),
                                !.consumed = @ + 1,
                                !.pc = "navigate"]
    /\ FallbackUnchanged

\* find_consecutive_slots on the displayed date; without a run the previous
\* business day becomes the next candidate until max_days_back days are used
fallback_search ==
    /\ fallback.pc = "search"
    /\ \E found \in BOOLEAN :
         IF found
           THEN fallback' = [fallback EXCEPT !.found_date = fallback.current, !.pc = "found"]
         ELSE IF fallback.consumed < fallback.max_days_back
           THEN fallback' = [fallback EXCEPT
                                !.current = PreviousBusinessDay(fallback.current),
                                !.consumed = @ + 1,
                                !.pc = "navigate"]
         ELSE fallback' = [fallback EXCEPT !.pc = "none"]
    /\ FallbackUnchanged

\* ------------------------------------------------ navigation_strategy.py
\* max_month_navigation (navigation_strategy.py:70)
MaxMonthNavigation == 24

\* device modes a booker is asked for; only the first two are valid
DeviceModes == {"mobile", "desktop", "tablet", "invalid"}

Mobile == "MobileNavigationStrategy"
Desktop == "DesktopNavigationStrategy"
InvalidDeviceMode == "ValueError: Invalid device_mode"

\* variant: every mode but 'desktop' gets the mobile strategy
get_navigation_strategy_lenient(device_mode) ==
    IF device_mode = "desktop" THEN Desktop ELSE Mobile

\* get_navigation_strategy, lines 220-225
get_navigation_strategy(device_mode) ==
    IF device_mode = "mobile" THEN Mobile
    ELSE IF device_mode = "desktop" THEN Desktop
    ELSE InvalidDeviceMode

\* utils.setup_driver(device_mode), as tests/test_utils.py 86-97 fix it: an
\* invalid mode is refused before any browser is started; a valid mode
\* starts the browser or fails on the environment (CHROMEDRIVER_PATH)
setup_driver(device_mode) ==
    IF device_mode \notin {"mobile", "desktop"} THEN {InvalidDeviceMode}
    ELSE {"started", "RuntimeError"}

\* a date is a record; target_date is the text "YYYY-MM-DD", held as <<Y, M, D>>
DateOf(y, m, d) == [y |-> y, m |-> m, d |-> d]
Targets == {<<2025, 12, 1>>, <<2026, 1, 12>>}
ShownDates ==
    {DateOf(2024, 1, 15), DateOf(2025, 11, 30), DateOf(2025, 12, 1), DateOf(2025, 12, 2),
     DateOf(2026, 1, 12), DateOf(2026, 12, 1)}

\* strptime(text, "%Y-%m-%d").date() and strptime(text, "%d-%m-%Y").date()
ParseYMD(text) == DateOf(text[1], text[2], text[3])
ParseDMY(text) == DateOf(text[3], text[2], text[1])

\* the texts the page shows for a date: the matrix title "Zo 30-11-2025"
\* (its words), the value of the selected option of select[name='date']
MatrixTitle(date) == <<"Zo", <<date.d, date.m, date.y>>>>
OptionValue(date) == <<date.y, date.m, date.d>>
\* an empty title, or no such element
Unreadable == <<>>

\* the calendar header "Nov 2025", as its words
month_names ==
    <<"Jan", "Feb", "Mar", "Apr", "May", "Jun", "Jul", "Aug", "Sep", "Oct", "Nov", "Dec">>
CalendarTitle(cal) == <<month_names[cal.m], cal.y>>
BadCalendarTitle == <<"November2025">>
CalendarError == [y |-> 0, m |-> 0]

\* lines 76-88: parse the header; ValueError/IndexError give CalendarError
ParseCalendarTitle(parts) ==
    IF Len(parts) < 2 \/ parts[1] \notin Elems(month_names) THEN CalendarError
    ELSE [y |-> parts[2], m |-> CHOOSE i \in 1..12 : month_names[i] = parts[1]]

NextMonth(cal) == IF cal.m = 12 THEN [y |-> cal.y + 1, m |-> 1] ELSE [cal EXCEPT !.m = @ + 1]
PrevMonth(cal) == IF cal.m = 1 THEN [y |-> cal.y - 1, m |-> 12] ELSE [cal EXCEPT !.m = @ - 1]

\* variant: the day of the month is not compared
DesktopDateMatches_month_only(title, target_date) ==
    IF title = Unreadable THEN FALSE
    ELSE LET current_date == ParseDMY(title[Len(title)])
             target_dt == ParseYMD(target_date)
         IN  current_date.y = target_dt.y /\ current_date.m = target_dt.m

\* DesktopNavigationStrategy.wait_for_matrix_date.date_matches, lines 136-145
DesktopDateMatches(title, target_date) ==
    IF title = Unreadable THEN FALSE
    ELSE ParseDMY(title[Len(title)]) = ParseYMD(target_date)

\* MobileNavigationStrategy.wait_for_matrix_date.date_matches, lines 195-203
MobileDateMatches(selected_value, target_date) ==
    IF selected_value = Unreadable THEN FALSE
    ELSE selected_value = target_date

NoDateRead == DateOf(0, 0, 0)

NoNav ==
    [pc |-> "idle", device_mode |-> "", strategy |-> "None", driver |-> FALSE,
     target_date |-> <<0, 0, 0>>,
     shown |-> NoDateRead,            \* the date the schedule page is showing
     calendar |-> CalendarError,      \* the month the desktop calendar is showing
     navigation_count |-> 0,
     day_clicked |-> FALSE,
     opened |-> CalendarError,        \* history: the month the calendar showed at first
     last_click |-> "none",           \* history: the month control clicked last
     faithful |-> TRUE,               \* history: every element was found, every header
                                      \* was readable and every click moved the month
     waited_for |-> <<>>,             \* history: target of the wait that returned normally
     read_back |-> NoDateRead,        \* history: the date that wait read from the page
     exception |-> "",
     result |-> "None"]

\* the calls: a device mode, a target date and a page that opens on some
\* date, its calendar on that date's month
NavCalls ==
    {[NoNav EXCEPT !.pc = "init", !.device_mode = dm, !.target_date = tg,
                   !.shown = sh, !.calendar = [y |-> sh.y, m |-> sh.m],
                   !.opened = [y |-> sh.y, m |-> sh.m]] :
        dm \in DeviceModes, tg \in Targets, sh \in ShownDates}

NavUnchanged ==
    UNCHANGED <<booking_status, api_pc, last_response, n_requests, clock, job,
                enable_booking, max_attempts, page, find_args, find_result, fallback,
                avail, status_response, form>>

NavRaise(e) == nav' = [nav EXCEPT !.exception = e, !.pc = "raised"]

\* PadelBooker.__init__ (booker.py 32-36): setup_driver, then the strategy
PadelBooker_new ==
    /\ nav.pc = "init"
    /\ \E o \in setup_driver(nav.device_mode) :
         IF o # "started" THEN NavRaise(o)
         ELSE LET st == get_navigation_strategy(nav.device_mode) IN
              IF st = InvalidDeviceMode
                THEN nav' = [nav EXCEPT !.driver = TRUE, !.exception = st, !.pc = "raised"]
                ELSE nav' = [nav EXCEPT !.driver = TRUE, !.strategy = st, !.pc = "go_to_date"]
    /\ NavUnchanged

\* MobileNavigationStrategy.navigate_to_date, lines 153-185: both exceptions
\* are raised again; the reloaded page shows the target or the date it showed
mobile_navigate_to_date ==
    /\ nav.pc = "go_to_date"
    /\ nav.strategy = Mobile
    /\ \E o \in {"ok", "NoSuchElementException", "TimeoutException"}, loaded \in BOOLEAN :
         IF o = "ok"
           THEN nav' = [nav EXCEPT
                           !.shown = IF loaded THEN ParseYMD(nav.target_date) ELSE @,
                           !.pc = "wait_for_matrix_date"]
           ELSE NavRaise(o)
    /\ NavUnchanged

\* DesktopNavigationStrategy.navigate_to_date, lines 57-71: up to the loop;
\* a timeout is caught at line 126 and the call returns
desktop_navigate_to_date ==
    /\ nav.pc = "go_to_date"
    /\ nav.strategy = Desktop
    /\ \E o \in {"ok", "fail"} :
         nav' = [nav EXCEPT !.navigation_count = 0,
                            !.faithful = (o = "ok"),
                            !.pc = IF o = "ok" THEN "month_loop" ELSE "wait_for_matrix_date"]
    /\ NavUnchanged

\* variant: the day cell is tried whatever the number of clicks was
desktop_month_step_no_bound_check ==
    /\ nav.pc = "month_loop"
    /\ nav.navigation_count < MaxMonthNavigation
    /\ \E title \in {CalendarTitle(nav.calendar), BadCalendarTitle},
          o \in {"ok", "fail"}, moved \in BOOLEAN :
         LET current == ParseCalendarTitle(title)
             target == ParseYMD(nav.target_date)
         IN  IF current = CalendarError
               THEN nav' = [nav EXCEPT !.faithful = FALSE, !.pc = "click_day"]
             ELSE IF current.y = target.y /\ current.m = target.m
               THEN nav' = [nav EXCEPT !.pc = "click_day"]
             ELSE IF o = "fail"
               THEN nav' = [nav EXCEPT !.faithful = FALSE, !.pc = "wait_for_matrix_date"]
             ELSE LET forward == current.y < target.y \/ (current.y = target.y /\ current.m < target.m)
                      count == nav.navigation_count + 1
                  IN  nav' = [nav EXCEPT
                                 !.calendar = IF ~moved THEN @
                                              ELSE IF forward THEN NextMonth(@) ELSE PrevMonth(@),
                                 !.navigation_count = count,
                                 !.last_click = IF forward THEN "next" ELSE "prev",
                                 !.faithful = @ /\ moved,
                                 !.pc = IF count < MaxMonthNavigation
                                          THEN "month_loop" ELSE "click_day"]
    /\ NavUnchanged

\* lines 73-108: one pass of the month loop (read the header, compare, click
\* next or previous), the loop test and the test of lines 106-108; a click
\* moves the calendar by one month, or leaves it where it was
desktop_month_step ==
    /\ nav.pc = "month_loop"
    /\ nav.navigation_count < MaxMonthNavigation
    /\ \E title \in {CalendarTitle(nav.calendar), BadCalendarTitle},
          o \in {"ok", "fail"}, moved \in BOOLEAN :
         LET current == ParseCalendarTitle(title)
             target == ParseYMD(nav.target_date)
         IN  IF current = CalendarError
               THEN nav' = [nav EXCEPT !.faithful = FALSE, !.pc = "click_day"]
             ELSE IF current.y = target.y /\ current.m = target.m
               THEN nav' = [nav EXCEPT !.pc = "click_day"]
             ELSE IF o = "fail"
               THEN nav' = [nav EXCEPT !.faithful = FALSE, !.pc = "wait_for_matrix_date"]
             ELSE LET forward == current.y < target.y \/ (current.y = target.y /\ current.m < target.m)
                      count == nav.navigation_count + 1
                  IN  nav' = [nav EXCEPT
                                 !.calendar = IF ~moved THEN @
                                              ELSE IF forward THEN NextMonth(@) ELSE PrevMonth(@),
                                 !.navigation_count = count,
                                 !.last_click = IF forward THEN "next" ELSE "prev",
                                 !.faithful = @ /\ moved,
                                 !.pc = IF count < MaxMonthNavigation
                                          THEN "month_loop" ELSE "wait_for_matrix_date"]
    /\ NavUnchanged

\* lines 110-124: the cell cal_{year}_{month}_{day} is on the page when the
\* calendar shows the target's month; a missing cell or a timeout is caught
desktop_click_day ==
    /\ nav.pc = "click_day"
    /\ LET target == ParseYMD(nav.target_date)
           present == nav.calendar = [y |-> target.y, m |-> target.m]
       IN  \E o \in {"ok", "fail"}, loaded \in BOOLEAN :
             IF present /\ o = "ok"
               THEN nav' = [nav EXCEPT !.day_clicked = TRUE,
                                       !.shown = IF loaded THEN target ELSE @,
                                       !.pc = "wait_for_matrix_date"]
               ELSE nav' = [nav EXCEPT !.faithful = FALSE,
                                       !.pc = "wait_for_matrix_date"]
    /\ NavUnchanged

\* what date_matches reads: the matrix title (desktop), the selected option (mobile)
PageText(strategy, date) ==
    IF strategy = Desktop THEN MatrixTitle(date) ELSE OptionValue(date)

DateMatches(strategy, text, target_date) ==
    IF strategy = Desktop THEN DesktopDateMatches(text, target_date)
    ELSE MobileDateMatches(text, target_date)

\* wait_for_matrix_date, lines 130-147 and 187-205: wait.until(date_matches)
\* returns once date_matches is true and raises TimeoutException otherwise
nav_wait_for_matrix_date ==
    /\ nav.pc = "wait_for_matrix_date"
    /\ \E text \in {PageText(nav.strategy, nav.shown), Unreadable} :
         IF DateMatches(nav.strategy, text, nav.target_date)
           THEN nav' = [nav EXCEPT !.waited_for = nav.target_date,
                                   !.read_back = nav.shown,
                                   !.pc = "find_consecutive_slots"]
           ELSE NavRaise("TimeoutException")
    /\ NavUnchanged

\* utils.py 126-128: the job reads the matrix
nav_find_consecutive_slots ==
    /\ nav.pc = "find_consecutive_slots"
    /\ nav' = [nav EXCEPT !.pc = "matrix_read"]
    /\ NavUnchanged

\* utils.py 154-157 with PadelBooker.__exit__: an exception becomes the
\* job's error result; one that leaves the `with` block closes the session
\* first, one raised by the constructor finds no booker to close
nav_except ==
    /\ nav.pc = "raised"
    /\ nav' = [nav EXCEPT !.driver = IF nav.strategy = "None" THEN @ ELSE FALSE,
                          !.result = "error",
                          !.pc = "failed"]
    /\ NavUnchanged

\* ----------------------------------------- booker.check_availability
\* a free cell without a slot-period element (find_element raises
\* NoSuchElementException, which both readers catch)
NoPeriodDiv == <<>>

AvailPeriods ==
    {<<"21:30", "23:00">>, <<"20:00", "21:30">>, <<"21:30", "22:30">>, <<"23:00", "00:00">>,
     <<"21:30", "24:00">>, NoDash, Blank, NoPeriodDiv}

AvailPages ==
    {q \in UNION {[1..n -> [court : Courts, period : AvailPeriods]] : n \in 0..MaxCells} :
        \A i, k \in DOMAIN q : i # k => ~Overlap(q[i], q[k])}

\* duration_hours, in thousandths of an hour
AvailDurations == {1000, 1490, 1495, 1500, 1510}
AvailStartTimes == {"21:30", "23:00"}

NoAvail == [start_time |-> "", duration_hours |-> 0, result |-> NotCalled]
AvailCalls ==
    {[NoAvail EXCEPT !.start_time = st, !.duration_hours = d] :
        st \in AvailStartTimes, d \in AvailDurations}

\* (end_dt - start_dt).total_seconds() / 3600 compared with duration_hours:
\* abs(minutes / 60 - thousandths / 1000) < 0.01, scaled by 60000
Abs(x) == IF x < 0 THEN 0 - x ELSE x
WithinTolerance(minutes, duration_hours) == Abs(1000 * minutes - 60 * duration_hours) < 600

\* lines 91-106: the cells in page order; the unpacking of a text without
\* exactly two parts and strptime on a text that is no time raise ValueError,
\* which neither except clause (lines 105, 110) catches
RECURSIVE ScanAvailable(_, _, _, _)
ScanAvailable(p, i, start_time, duration_hours) ==
    IF i > Len(p) THEN ReturnedNone
    ELSE LET period == p[i].period IN
         IF period = NoPeriodDiv
           THEN ScanAvailable(p, i + 1, start_time, duration_hours)
         ELSE IF Len(period) # 2 THEN Raised
         ELSE IF period[1] # start_time
           THEN ScanAvailable(p, i + 1, start_time, duration_hours)
         ELSE IF ~ValidTime(period[1]) \/ ~ValidTime(period[2]) THEN Raised
         ELSE IF WithinTolerance(Minutes(period[2]) - Minutes(period[1]), duration_hours)
           THEN Returned(i, "None")
         ELSE ScanAvailable(p, i + 1, start_time, duration_hours)

\* PadelBooker.check_availability on a page (the date argument is only logged)
check_availability_on(p, start_time, duration_hours) ==
    ScanAvailable(p, 1, start_time, duration_hours)

\* one call of check_availability on the displayed page
call_check_availability ==
    /\ avail.result = NotCalled
    /\ avail' = [avail EXCEPT !.result = check_availability_on(page, avail.start_time,
                                                               avail.duration_hours)]
    /\ UNCHANGED <<booking_status, api_pc, last_response, n_requests, clock, job,
                   enable_booking, max_attempts, page, find_args, find_result, fallback,
                   nav, status_response, form>>

\* ------------------------------------------------- PadelBooker.book_slot
\* end times a found run can have, and the values of the options of the
\* end_time control of the booking form, in page order
EndTimes == {"22:30", "23:00", "00:00"}
EndTimeOptions ==
    {<<"22:00", "22:30", "23:00">>,
     <<"22:00", "22:30">>,
     <<"23:00", "23:00">>,
     <<"23:30", "24:00">>,
     <<>>}

\* events of a call, in the order they happen
ClickSlot == "slot.click"
SelectEndTime(value) == "option.click " \o value
EnterRotation == "try_booking_with_player_rotation"

NoForm == [pc |-> "none", end_time |-> "", options |-> <<>>, i |-> 0, events |-> <<>>,
           result |-> "none"]
FormCalls ==
    {[NoForm EXCEPT !.pc = "click_slot", !.end_time = e, !.options = o] :
        e \in EndTimes, o \in EndTimeOptions}

FormUnchanged ==
    UNCHANGED <<booking_status, api_pc, last_response, n_requests, clock, job,
                enable_booking, max_attempts, page, find_args, find_result, fallback,
                avail, nav, status_response>>

\* the except clause of book_slot (401-403) returns None for "fail"; any other
\* exception leaves book_slot
FormEnds(o) ==
    form' = [form EXCEPT !.pc = "ended", !.result = IF o = "fail" THEN "None" ELSE "raised"]

\* line 381: slot.click()
form_click_slot ==
    /\ form.pc = "click_slot"
    /\ \E o \in Outcomes :
         IF o = "ok"
           THEN form' = [form EXCEPT !.events = Append(@, ClickSlot), !.pc = "wait_form"]
           ELSE FormEnds(o)
    /\ FormUnchanged

\* lines 382 and 385: wait for players[2], find the end_time control and its
\* options
form_find_end_time ==
    /\ form.pc = "wait_form"
    /\ \E o \in Outcomes :
         IF o = "ok"
           THEN form' = [form EXCEPT !.i = 1, !.pc = "options"]
           ELSE FormEnds(o)
    /\ FormUnchanged

\* lines 386-389, one iteration: the first option whose value is end_time is
\* clicked and the loop is left; when the options are used up the loop ends
\* with nothing clicked
form_option ==
    /\ form.pc = "options"
    /\ IF form.i > Len(form.options)
         THEN form' = [form EXCEPT !.pc = "rotation"]
       ELSE IF form.options[form.i] = form.end_time
         THEN \E o \in Outcomes :
                IF o = "ok"
                  THEN form' = [form EXCEPT
                                  !.events = Append(@, SelectEndTime(form.options[form.i])),
                                  !.pc = "rotation"]
                  ELSE FormEnds(o)
       ELSE form' = [form EXCEPT !.i = @ + 1]
    /\ FormUnchanged

\* lines 392-399: try_booking_with_player_rotation is entered; it returns the
\* selected names or None, or raises PlayerSelectionExhaustedError, for which
\* book_slot returns None
form_rotation ==
    /\ form.pc = "rotation"
    /\ \E r \in {"selected", "None", "raised"} :
         form' = [form EXCEPT !.events = Append(@, EnterRotation), !.pc = "ended",
                              !.result = r]
    /\ FormUnchanged

\* ------------------------------------------------- api.get_status
\* no reply yet
NoStatus == [served |-> FALSE, running |-> FALSE, result |-> NoResult, started_at |-> NoTime]

StatusUnchanged ==
    UNCHANGED <<booking_status, last_response, n_requests, clock, job, enable_booking,
                max_attempts, page, find_args, find_result, fallback, avail, nav, form>>

\* variant: the query is held back while a job is running
get_status_running_waits ==
    /\ api_pc = "idle"
    /\ ~booking_status.running
    /\ status_response' = [NoStatus EXCEPT !.running = booking_status.running]
    /\ api_pc' = "status_result"
    /\ StatusUnchanged

\* get_status, line 65: the handler starts when the event loop is free and
\* reads booking_status["running"]
get_status_running ==
    /\ api_pc = "idle"
    /\ status_response' = [NoStatus EXCEPT !.running = booking_status.running]
    /\ api_pc' = "status_result"
    /\ StatusUnchanged

\* line 66: booking_status["result"]
get_status_result ==
    /\ api_pc = "status_result"
    /\ status_response' = [status_response EXCEPT !.result = booking_status.result]
    /\ api_pc' = "status_started_at"
    /\ StatusUnchanged

\* lines 64-68: booking_status["started_at"], and the reply is returned
get_status_started_at ==
    /\ api_pc = "status_started_at"
    /\ status_response' = [status_response EXCEPT !.started_at = booking_status.started_at,
                                                  !.served = TRUE]
    /\ api_pc' = "idle"
    /\ StatusUnchanged

get_status == get_status_running \/ get_status_result \/ get_status_started_at


\* ------------------------------------------------------- specifications
\* variant: the tracker starts with a result left in it
InitCommon_stale_result ==
    /\ booking_status = [running |-> FALSE, result |-> ErrorResult("Error"), started_at |-> NoTime]
    /\ api_pc = "idle"
    /\ last_response = NoResponse
    /\ n_requests = 0
    /\ clock = 0
    /\ job = [t \in Threads |-> IdleJob]
    /\ enable_booking \in BOOLEAN
    /\ page = <<>>
    /\ find_args = [start_time |-> "21:00", duration_hours |-> 2]
    /\ find_result = NotCalled
    /\ fallback = NoFallback
    /\ avail = NoAvail
    /\ nav = NoNav
    /\ status_response = NoStatus
    /\ form = NoForm

InitCommon ==
    /\ booking_status = [running |-> FALSE, result |-> NoResult, started_at |-> NoTime]
    /\ api_pc = "idle"
    /\ last_response = NoResponse
    /\ n_requests = 0
    /\ clock = 0
    /\ job = [t \in Threads |-> IdleJob]
    /\ enable_booking \in BOOLEAN
    /\ page = <<>>
    /\ find_args = [start_time |-> "21:00", duration_hours |-> 2]
    /\ find_result = NotCalled
    /\ fallback = NoFallback
    /\ avail = NoAvail
    /\ nav = NoNav
    /\ status_response = NoStatus
    /\ form = NoForm

\* one step of job thread t
JobStep(t, Texts, Options) ==
    \/ set_running(t)
    \/ reset_result(t)
    \/ set_started_at(t)
    \/ check_inputs(t)
    \/ PadelBooker_init(t)
    \/ login(t)
    \/ go_to_date(t)
    \/ wait_for_matrix_date(t)
    \/ find_consecutive_slots(t)
    \/ book_slot(t)
    \/ rotation(t, Options)
    \/ submit(t)
    \/ observe(t, Texts)
    \/ handle(t)
    \/ confirm(t)
    \/ map_result(t)
    \/ PadelBooker_exit(t)
    \/ except_handler(t)
    \/ finally_handler(t)

\* Spec: MaxRequests start requests racing with the job threads they spawn
Init == InitCommon /\ max_attempts = DefaultMaxAttempts

Next ==
    \/ book_court(SmallRequests, MaxRequests)
    \/ book_court_respond
    \/ \E t \in Threads : JobStep(t, SmallTexts, SmallOptions)

Spec == Init /\ [][Next]_vars

\* FairSpec: every spawned thread keeps being scheduled
FairSpec == Spec /\ \A t \in Threads : WF_vars(JobStep(t, SmallTexts, SmallOptions))

\* JobSpec: one job, over the wide input sets
JobInit == InitCommon /\ max_attempts \in 1..MaxAttemptsCfg

JobNext ==
    \/ book_court(WideRequests, 1)
    \/ book_court_respond
    \/ \E t \in Threads : JobStep(t, WideTexts, WideOptions)

JobSpec == JobInit /\ [][JobNext]_vars

\* JobFairSpec: the job thread keeps being scheduled
JobFairSpec == JobSpec /\ \A t \in Threads : WF_vars(JobStep(t, WideTexts, WideOptions))

\* StatusSpec: one start request and its job, with status queries at any time
StatusNext ==
    \/ book_court(SmallRequests, 1)
    \/ book_court_respond
    \/ get_status
    \/ \E t \in Threads : JobStep(t, SmallTexts, SmallOptions)

StatusSpec == Init /\ [][StatusNext]_vars

\* PollSpec: MaxRequests start requests and their jobs, with status queries
PollNext == Next \/ get_status

PollSpec == Init /\ [][PollNext]_vars

\* BookSlotSpec: book_slot called with the end time of a found run on a
\* booking form
BookSlotInit ==
    /\ booking_status = [running |-> FALSE, result |-> NoResult, started_at |-> NoTime]
    /\ api_pc = "idle"
    /\ last_response = NoResponse
    /\ n_requests = 0
    /\ clock = 0
    /\ job = [t \in Threads |-> IdleJob]
    /\ enable_booking = TRUE
    /\ max_attempts = DefaultMaxAttempts
    /\ page = <<>>
    /\ find_args = [start_time |-> "21:00", duration_hours |-> 2]
    /\ find_result = NotCalled
    /\ fallback = NoFallback
    /\ avail = NoAvail
    /\ nav = NoNav
    /\ status_response = NoStatus
    /\ form \in FormCalls

BookSlotNext == form_click_slot \/ form_find_end_time \/ form_option \/ form_rotation

BookSlotSpec == BookSlotInit /\ [][BookSlotNext]_vars

\* SlotSpec: find_consecutive_slots applied to every page and request
SlotInit ==
    /\ booking_status = [running |-> FALSE, result |-> NoResult, started_at |-> NoTime]
    /\ api_pc = "idle"
    /\ last_response = NoResponse
    /\ n_requests = 0
    /\ clock = 0
    /\ job = [t \in Threads |-> IdleJob]
    /\ enable_booking = FALSE
    /\ max_attempts = DefaultMaxAttempts
    /\ page \in Pages
    /\ find_args \in FindArgs
    /\ find_result = NotCalled
    /\ fallback = NoFallback
    /\ avail = NoAvail
    /\ nav = NoNav
    /\ status_response = NoStatus
    /\ form = NoForm

SlotNext == call_find_consecutive_slots

SlotSpec == SlotInit /\ [][SlotNext]_vars

\* FallbackSpec: one call of find_consecutive_slots_with_fallback for every
\* requested date and bound, the searches answering either way
FallbackInit ==
    /\ booking_status = [running |-> FALSE, result |-> NoResult, started_at |-> NoTime]
    /\ api_pc = "idle"
    /\ last_response = NoResponse
    /\ n_requests = 0
    /\ clock = 0
    /\ job = [t \in Threads |-> IdleJob]
    /\ enable_booking = FALSE
    /\ max_attempts = DefaultMaxAttempts
    /\ page = <<>>
    /\ find_args = [start_time |-> "21:00", duration_hours |-> 2]
    /\ find_result = NotCalled
    /\ fallback \in FallbackCalls
    /\ avail = NoAvail
    /\ nav = NoNav
    /\ status_response = NoStatus
    /\ form = NoForm

FallbackNext == fallback_navigate \/ fallback_search

FallbackSpec == FallbackInit /\ [][FallbackNext]_vars

\* AvailSpec: both readers of the slot matrix applied to every page, for a
\* requested start and a duration of an hour and a half or near it
AvailInit ==
    /\ booking_status = [running |-> FALSE, result |-> NoResult, started_at |-> NoTime]
    /\ api_pc = "idle"
    /\ last_response = NoResponse
    /\ n_requests = 0
    /\ clock = 0
    /\ job = [t \in Threads |-> IdleJob]
    /\ enable_booking = FALSE
    /\ max_attempts = DefaultMaxAttempts
    /\ page \in AvailPages
    /\ avail \in AvailCalls
    /\ find_args = [start_time |-> avail.start_time, duration_hours |-> 3]
    /\ find_result = NotCalled
    /\ fallback = NoFallback
    /\ nav = NoNav
    /\ status_response = NoStatus
    /\ form = NoForm

AvailNext == call_check_availability \/ call_find_consecutive_slots

AvailSpec == AvailInit /\ [][AvailNext]_vars

\* NavSpec: a booker is constructed for a device mode and navigates to a
\* target date as lines 112-128 of run_booking_background do
NavInit ==
    /\ booking_status = [running |-> FALSE, result |-> NoResult, started_at |-> NoTime]
    /\ api_pc = "idle"
    /\ last_response = NoResponse
    /\ n_requests = 0
    /\ clock = 0
    /\ job = [t \in Threads |-> IdleJob]
    /\ enable_booking = FALSE
    /\ max_attempts = DefaultMaxAttempts
    /\ page = <<>>
    /\ find_args = [start_time |-> "21:00", duration_hours |-> 2]
    /\ find_result = NotCalled
    /\ fallback = NoFallback
    /\ avail = NoAvail
    /\ nav \in NavCalls
    /\ status_response = NoStatus
    /\ form = NoForm

NavNext ==
    \/ PadelBooker_new
    \/ mobile_navigate_to_date
    \/ desktop_navigate_to_date
    \/ desktop_month_step
    \/ desktop_click_day
    \/ nav_wait_for_matrix_date
    \/ nav_find_consecutive_slots
    \/ nav_except

NavSpec == NavInit /\ [][NavNext]_vars

\* ================================================================ claims
Started(t) == job[t].pc # "idle"
Ended(t) == job[t].pc = "done"
JobsInFlight == {t \in Threads : InFlight(t)}

\* C1: at most one booking job is in flight at any time (from the moment a
\* start request is accepted until the job it spawned has finished).
C1_SingleFlight == Cardinality(JobsInFlight) <= 1

\* C2: once a job has ended and no job is in flight, the tracker has
\* running = false and a result that is not absent, whichever exit path
\* the jobs took.  (While a later job is in flight the tracker shows that
\* job's reset of lines 101-103, so the property is about the states
\* between jobs.)
C2_ResultPresentAfterJob ==
    ((\E t \in Threads : Ended(t)) /\ JobsInFlight = {})
        => (~booking_status.running /\ booking_status.result # NoResult)

C2_Witness ==
    /\ \E t \in Threads : Ended(t)
    /\ JobsInFlight = {}
    /\ booking_status.result = ErrorResult("Error")


\* C3: a start request handled while running is true gets the error
\* 'Booking already in progress', spawns no job thread and opens no
\* browser session (no job state changes at all).
C3_RejectWhileRunning ==
    [][(booking_status.running /\ n_requests' = n_requests + 1)
         => (/\ last_response'.status = "error"
             /\ last_response'.detail = "Booking already in progress"
             /\ job' = job
             /\ api_pc' = "idle"
             /\ booking_status' = booking_status)]_vars

C3_Witness ==
    /\ last_response.detail = "Booking already in progress"
    /\ booking_status.running
    /\ JobsInFlight # {}

\* C4: once running has been set to true it eventually becomes false
\* again, provided the job thread keeps being scheduled.
C4_JobEnds == booking_status.running ~> ~booking_status.running

C4_Witness ==
    /\ \E t \in Threads : Ended(t)
    /\ ~booking_status.running
    /\ booking_status.result = ErrorResult("Booking failed")

\* C5: a browser session is open only while its job is inside the `with`
\* block: it is released before the job reaches its except/finally
\* handlers, hence before running is set to false, and no session is open
\* when no job is in flight.
WithBlock ==
    {"login", "go_to_date", "wait_for_matrix_date", "find_consecutive_slots",
     "book_slot", "rotation", "submit", "observe", "handle", "confirm",
     "map_result", "exit"}

C5_SessionReleased ==
    /\ \A t \in Threads : job[t].driver => job[t].pc \in WithBlock
    /\ JobsInFlight = {} => \A t \in Threads : ~job[t].driver

C5_Witness ==
    /\ n_requests = 1
    /\ job[1].pc = "finally"
    /\ ~job[1].driver
    /\ booking_status.result = ErrorResult("Login failed")


\* ------------------------------------------------ rotation engine claims
\* the original pool minus every non-organizer name rejected so far
Remaining(t) == Without(job[t].player_candidates, job[t].named)

\* a selection is about to be submitted, or has just been submitted
Submitting(t) == job[t].pc \in {"submit", "observe"}

\* C6: no name that an earlier rejection of this job gave for a
\* non-organizer is among the seats of a later submission.
C6_RejectedNeverReselected ==
    \A t \in Threads : Submitting(t) => Elems(job[t].selected) \cap job[t].named = {}

C6_Witness ==
    \E t \in Threads :
        /\ job[t].pc = "observe"
        /\ job[t].named \cap Elems(job[t].player_candidates) # {}
        /\ Len(job[t].selected) = 3

\* C7: after a rejection that names the organizer there is no further
\* submit and no final confirmation, book_slot returns no players, and the
\* result recorded for the job is an error.
C7_OrganizerRejectedAborts ==
    [][\A t \in Threads :
         job[t].signal = "organizer" =>
           /\ job'[t].submits <= job[t].submits
           /\ job'[t].confirms <= job[t].confirms
           /\ job'[t].pc \notin {"rotation", "submit", "observe", "confirm"}
           /\ job'[t].pc = "map_result" => job'[t].ret = NoPlayers
           /\ (job[t].pc = "map_result" /\ job'[t].pc # "map_result")
                => booking_status'.result.status = "error"]_vars

C7_Witness ==
    \E t \in Threads :
        /\ job[t].signal = "organizer"
        /\ job[t].pc = "map_result"
        /\ job[t].submits = 1

\* C8: after a rejection signal whose text does not match the pattern
\* there is no further submit and no final confirmation, no name is added
\* to the blocked set, and the recorded result is an error.
C8_UnrecognizedRejectionAborts ==
    [][\A t \in Threads :
         job[t].signal = "unrecognized" =>
           /\ job'[t].submits <= job[t].submits
           /\ job'[t].confirms <= job[t].confirms
           /\ job'[t].pc \notin {"rotation", "submit", "observe", "confirm"}
           /\ job'[t].blocked_players \subseteq job[t].blocked_players
           /\ job'[t].pc = "map_result" => job'[t].ret = NoPlayers
           /\ (job[t].pc = "map_result" /\ job'[t].pc # "map_result")
                => booking_status'.result.status = "error"]_vars

\* C9: one rotation never clicks submit more than max_attempts times; when
\* max_attempts submissions were each answered by a rejection of a
\* non-organizer and the loop is re-entered, it fails with 'Maximum booking
\* attempts reached' without another submit.
MaxAttemptsReached == "Maximum booking attempts reached"

C9_AttemptsBounded ==
    /\ [](\A t \in Threads : job[t].submits <= max_attempts)
    /\ [][\A t \in Threads :
            (/\ job[t].pc = "rotation"
             /\ job[t].submits = max_attempts
             /\ job'[t].pc # "rotation")
              => /\ job'[t].pc = "map_result"
                 /\ job'[t].raised = MaxAttemptsReached
                 /\ job'[t].ret = NoPlayers
                 /\ job'[t].submits = job[t].submits]_vars

C9_Witness ==
    \E t \in Threads :
        /\ job[t].pc = "map_result"
        /\ job[t].raised = MaxAttemptsReached
        /\ job[t].submits = max_attempts
        /\ Len(Remaining(t)) >= 3

\* C10: a selection is submitted only with three seats filled and at least
\* three candidates remaining; when fewer than three candidates remain the
\* rotation ends with PlayerSelectionExhaustedError and without a submit.
C10_NoShortSubmission ==
    /\ [](\A t \in Threads :
            job[t].pc \in {"submit", "observe", "confirm"}
              => (Len(job[t].selected) = 3 /\ Len(Remaining(t)) >= 3))
    /\ [][\A t \in Threads :
            (/\ job[t].pc \in {"rotation", "handle"}
             /\ job'[t].pc # job[t].pc
             /\ Len(Remaining(t)) < 3)
              => /\ job'[t].pc \in {"rotation", "map_result"}
                 /\ job'[t].submits = job[t].submits
                 /\ job'[t].pc = "map_result"
                      => (job'[t].raised # "" /\ job'[t].ret = NoPlayers)]_vars

C10_Witness ==
    \E t \in Threads :
        /\ job[t].pc = "map_result"
        /\ job[t].raised = "Not enough players available after removing blocked players"
        /\ job[t].submits = 1
        /\ Len(Remaining(t)) < 3

\* ---------------------------------------------------- accepted submissions
Distinct(s) == \A i, k \in 1..Len(s) : i # k => s[i] # s[k]

\* the first n pairwise-distinct entries of s, in the order of s
RECURSIVE FirstDistinct(_, _, _)
FirstDistinct(s, n, acc) ==
    IF n = 0 \/ s = <<>> THEN acc
    ELSE IF Head(s) \in Elems(acc) THEN FirstDistinct(Tail(s), n, acc)
    ELSE FirstDistinct(Tail(s), n - 1, Append(acc, Head(s)))

\* the site showed no rejection signal and book_slot has returned the selected players
Accepted(t) ==
    job[t].pc = "map_result" /\ job[t].ret # NoPlayers /\ job[t].signal = "none"

\* C11 as stated: an accepted submission returns three pairwise-distinct
\* names which, when the seat controls offer every name, are the first
\* three entries of the remaining candidates; without any rejection the
\* blocked set is empty and they are the first three entries of the pool.
C11_FirstThreeEntries ==
    \A t \in Threads :
        /\ Accepted(t) =>
              /\ Len(job[t].ret) = 3
              /\ Distinct(job[t].ret)
              /\ job[t].all_offered => job[t].ret = SubSeq(Remaining(t), 1, 3)
              /\ (job[t].named = {} /\ job[t].all_offered)
                    => job[t].ret = SubSeq(job[t].player_candidates, 1, 3)
        /\ (job[t].pc = "confirm" /\ job[t].named = {}) => job[t].blocked_players = {}

\* C11 (amended): an accepted submission returns three pairwise-distinct
\* names which, when the seat controls offer every name, are the first
\* three distinct entries of the remaining candidates in preference order;
\* without any rejection the blocked set is empty and they are the first
\* three distinct entries of the original pool.
C11_FirstThreeDistinct ==
    \A t \in Threads :
        /\ Accepted(t) =>
              /\ Len(job[t].ret) = 3
              /\ Distinct(job[t].ret)
              /\ job[t].all_offered => job[t].ret = FirstDistinct(Remaining(t), 3, <<>>)
              /\ (job[t].named = {} /\ job[t].all_offered)
                    => job[t].ret = FirstDistinct(job[t].player_candidates, 3, <<>>)
        /\ (job[t].pc = "confirm" /\ job[t].named = {}) => job[t].blocked_players = {}

C11_Witness ==
    \E t \in Threads :
        /\ Accepted(t)
        /\ job[t].all_offered
        /\ job[t].named # {}
        /\ job[t].ret = SubSeq(Remaining(t), 1, 3)

\* C12: in dry-run mode (flag false) the final confirmation is never
\* clicked; with the flag true it is clicked at most once per job and only
\* after a submission that was answered by no rejection signal; a clicked
\* confirmation and a skipped one both return the three selected names.
C12_ConfirmationGuarded ==
    /\ [](\A t \in Threads : /\ ~enable_booking => job[t].confirms = 0
                             /\ job[t].confirms <= 1)
    /\ [][\A t \in Threads :
            job'[t].confirms > job[t].confirms
              => /\ enable_booking
                 /\ job[t].submits >= 1
                 /\ job[t].signal = "none"
                 /\ Len(job[t].selected) = 3
                 /\ job'[t].ret = job[t].selected]_vars
    /\ [][\A t \in Threads :
            (job[t].pc = "confirm" /\ ~enable_booking /\ job'[t].pc # "confirm")
              => /\ job[t].signal = "none"
                 /\ Len(job[t].selected) = 3
                 /\ job'[t].ret = job[t].selected]_vars

\* positions inside try_booking_with_player_rotation
RotationPcs == {"rotation", "submit", "observe", "handle", "confirm"}

\* C13: during one rotation the blocked set never loses a name, it holds
\* exactly the names the site rejected, and at the start of every attempt
\* (and until the attempt is answered) the remaining candidates are the
\* original pool without the blocked names, in the original order.
C13_BlockedGrowsPoolRecomputed ==
    /\ [](\A t \in Threads :
            job[t].pc \in RotationPcs
              => /\ job[t].candidates = Without(job[t].player_candidates, job[t].blocked_players)
                 /\ job[t].blocked_players \subseteq job[t].named
                 /\ job[t].pc # "handle" => job[t].blocked_players = job[t].named)
    /\ [][\A t \in Threads :
            (job[t].pc \in RotationPcs /\ job'[t].pc \in RotationPcs)
              => job[t].blocked_players \subseteq job'[t].blocked_players]_vars

C13_Witness ==
    \E t \in Threads :
        /\ job[t].pc = "rotation"
        /\ Cardinality(job[t].blocked_players) = 2
        /\ Len(job[t].candidates) = 3
        /\ Len(job[t].player_candidates) = 5

\* ------------------------------------------------------ slot finder claims
\* a contiguous run: free cells of one court with valid intervals, each
\* cell's end text equal to the next cell's start text
IsRun(p, r) ==
    /\ Len(r) >= 1
    /\ \A i \in 1..Len(r) : r[i] \in Grouped(p) /\ IsInterval(p[r[i]])
    /\ \A i, k \in 1..Len(r) : i # k => r[i] # r[k]
    /\ \A i \in 1..Len(r) : p[r[i]].court = p[r[1]].court
    /\ \A i \in 1..(Len(r) - 1) : p[r[i]].period[2] = p[r[i + 1]].period[1]

Runs(p) == {r \in UNION {[1..n -> 1..Len(p)] : n \in 1..Len(p)} : IsRun(p, r)}

RECURSIVE RunMinutes(_, _)
RunMinutes(p, r) ==
    IF r = <<>> THEN 0
    ELSE SecondsDiv60(p[Head(r)].period[1], p[Head(r)].period[2]) + RunMinutes(p, Tail(r))

RunEnd(p, r) == p[r[Len(r)]].period[2]

\* the runs that start at the requested start and cover the duration
SatisfyingRuns(p, args) ==
    {r \in Runs(p) : /\ p[r[1]].period[1] = args.start_time
                     /\ RunMinutes(p, r) >= NeededMinutes(args.duration_hours)}

TwoCellPage ==
    <<[court |-> "A", period |-> <<"21:00", "22:00">>],
      [court |-> "A", period |-> <<"22:00", "23:00">>]>>

\* C14: when find_consecutive_slots returns (slot, end), slot is a free cell
\* that starts at the requested start, and slot is the first cell of a
\* contiguous run on one court whose last cell ends at the returned end;
\* cells 21:00-22:00 and 22:00-23:00 on one court with request (21:00, 2.0)
\* give the first cell and end 23:00.
C14_ReturnedRunIsContiguous ==
    /\ (find_result.status = "returned" /\ find_result.slot # 0)
         => /\ find_result.slot \in Grouped(page)
            /\ page[find_result.slot].period[1] = find_args.start_time
            /\ \E r \in Runs(page) : /\ r[1] = find_result.slot
                                     /\ RunEnd(page, r) = find_result.end_time
    /\ (/\ find_result # NotCalled
        /\ page = TwoCellPage
        /\ find_args = [start_time |-> "21:00", duration_hours |-> 4])
         => find_result = Returned(1, "23:00")

C14_Witness ==
    /\ find_result.status = "returned"
    /\ find_result.slot # 0
    /\ find_result.end_time # page[find_result.slot].period[2]
    /\ Len(page) = 3

GapPage ==
    <<[court |-> "A", period |-> <<"21:00", "22:00">>],
      [court |-> "A", period |-> <<"23:00", "00:00">>]>>

\* C15: a call of find_consecutive_slots returns (None, None) exactly when
\* no court has a contiguous run of free cells that starts at the requested
\* start and covers the needed minutes; the page with a gap (21:00-22:00,
\* 23:00-00:00, request 2.0 hours) and the empty page both give (None, None).
C15_NoneExactlyWhenNoRun ==
    find_result # NotCalled
      => /\ (find_result = ReturnedNone) <=> (SatisfyingRuns(page, find_args) = {})
         /\ (page = GapPage /\ find_args = [start_time |-> "21:00", duration_hours |-> 4])
              => find_result = ReturnedNone
         /\ page = <<>> => find_result = ReturnedNone

\* position on the page of the first cell that puts a court into slots_by_court
FirstCell(p, court) ==
    CHOOSE i \in Grouped(p) :
        /\ p[i].court = court
        /\ \A k \in Grouped(p) : p[k].court = court => i <= k

\* C16: when two or more courts have a satisfying run from the requested
\* start, the call returns a run of the court whose first free cell comes
\* first on the page, whatever the number of cells of each run.
C16_FirstCourtWins ==
    find_result # NotCalled
      => LET sat == SatisfyingRuns(page, find_args)
             courts == {page[r[1]].court : r \in sat}
         IN  Cardinality(courts) >= 2
               => /\ find_result.status = "returned"
                  /\ find_result.slot # 0
                  /\ \A c \in courts :
                        FirstCell(page, page[find_result.slot].court) <= FirstCell(page, c)
                  /\ \E r \in sat : /\ r[1] = find_result.slot
                                    /\ RunEnd(page, r) = find_result.end_time

\* ---------------------------------------------------------- job claims
NoSlotsFound == ErrorResult("No available slots found")

\* C17: the job records the no-slot failure only after it has also
\* navigated to (and searched) at least one earlier business day: the step
\* that records it is never taken with the target date as the only date
\* navigated to.
C17_FallbackBeforeNoSlot ==
    [][\A t \in Threads :
         (/\ job[t].pc = "find_consecutive_slots"
          /\ job'[t].pc = "exit"
          /\ booking_status'.result = NoSlotsFound)
           => job[t].navigations >= 2]_vars

\* ------------------------------------------------- fallback search claims
Monday == 0
Friday == 4

\* C18: no date after the first one navigated to is a Saturday or Sunday;
\* from a Monday without a run the second date navigated to is the Friday
\* before (three days earlier), from a Friday the Thursday before; a run
\* found there is found with two navigations, and the reported found date
\* is the date navigated to last.
C18_WeekendsSkipped ==
    LET v == fallback.visited IN
    /\ \A i \in 2..Len(v) : ~IsWeekend(v[i])
    /\ (Len(v) >= 2 /\ Weekday(fallback.date) = Monday) => v[2] = fallback.date - 3
    /\ (Len(v) >= 2 /\ Weekday(fallback.date) = Friday) => v[2] = fallback.date - 1
    /\ fallback.pc = "found"
         => /\ fallback.found_date = v[Len(v)]
            /\ fallback.consumed = 1 => Len(v) = 2

C18_Witness ==
    /\ fallback.pc = "found"
    /\ Weekday(fallback.date) = Monday
    /\ fallback.found_date = fallback.date - 3
    /\ Len(fallback.visited) = 2

\* C19: the search navigates at most 1 + max_days_back times; when every
\* search finds nothing it ends after max_days_back days were consumed and
\* returns no slot and no date; every navigation goes to a different date,
\* each earlier than the one before; a found date is never later than the
\* requested date.
C19_FallbackBounded ==
    LET v == fallback.visited IN
    /\ fallback.consumed <= fallback.max_days_back
    /\ Len(v) <= fallback.max_days_back + 1
    /\ fallback.pc = "none"
         => /\ fallback.consumed = fallback.max_days_back
            /\ Len(v) = fallback.max_days_back + 1
            /\ fallback.found_date = NoDate
    /\ \A i \in 1..(Len(v) - 1) : v[i + 1] < v[i]
    /\ Len(v) >= 1 => v[1] = fallback.date
    /\ fallback.pc \in {"search", "found", "none"} => Len(v) = fallback.consumed + 1
    /\ fallback.pc = "found"
         => (fallback.found_date <= fallback.date /\ fallback.found_date \in Elems(v))

C19_Witness ==
    /\ fallback.pc = "none"
    /\ fallback.max_days_back = MaxDaysBack
    /\ Len(fallback.visited) = MaxDaysBack + 1
    /\ Weekday(fallback.date) = Monday

LoginFailed == ErrorResult("Login failed")

\* C20: when login returns False the job records the error 'Login failed'
\* and leaves the `with` block; from then on the job is at none of the later
\* steps, and it has navigated to no date, searched no page, clicked no slot
\* and submitted no selection.
C20_LoginFailureStops ==
    /\ [][\A t \in Threads :
            (job[t].pc = "login" /\ job'[t].pc \notin {"login", "go_to_date"} /\ ~job'[t].exc)
              => (booking_status'.result = LoginFailed /\ job'[t].pc = "exit")]_vars
    /\ [](\A t \in Threads :
            booking_status.result = LoginFailed
              => /\ job[t].pc \in {"idle", "exit", "finally", "done"}
                 /\ job[t].navigations = 0
                 /\ job[t].submits = 0
                 /\ job[t].confirms = 0)

C20_Witness ==
    /\ \E t \in Threads : Ended(t)
    /\ ~booking_status.running
    /\ booking_status.result = LoginFailed

\* ------------------------------------------------------ navigation claims
MatrixRead == {"find_consecutive_slots", "matrix_read"}

\* C21: find_consecutive_slots is invoked only after wait_for_matrix_date
\* has returned normally for the target date; the wait (desktop and mobile)
\* returns normally only when the date it read back from the page is the
\* target, and ends with TimeoutException otherwise, after which the matrix
\* is not read.
C21_MatrixReadOnlyOnTarget ==
    /\ [](nav.pc \in MatrixRead
            => /\ nav.waited_for = nav.target_date
               /\ nav.read_back = ParseYMD(nav.target_date)
               /\ nav.exception = "")
    /\ [][(nav.pc = "wait_for_matrix_date" /\ nav'.pc # nav.pc)
            => \/ /\ nav'.pc = "find_consecutive_slots"
                  /\ nav.shown = ParseYMD(nav.target_date)
                  /\ nav'.read_back = nav.shown
               \/ /\ nav'.pc = "raised"
                  /\ nav'.exception = "TimeoutException"
                  /\ nav'.waited_for = <<>>]_vars
    /\ [](nav.exception # "" => nav.pc \notin MatrixRead)

C21_Witness ==
    /\ nav.pc = "matrix_read"
    /\ nav.strategy = Desktop
    /\ nav.day_clicked
    /\ nav.navigation_count = 1
    /\ nav.read_back = DateOf(2026, 1, 12)

\* C22: one call of the desktop navigate_to_date clicks next/previous at
\* most 24 times; once 24 clicks were made the day cell is not clicked, the
\* matrix is never read, and the call sequence ends in the job's error
\* result through the TimeoutException of the wait.
C22_MonthClicksBounded ==
    /\ nav.navigation_count <= MaxMonthNavigation
    /\ nav.navigation_count = MaxMonthNavigation
         => /\ ~nav.day_clicked
            /\ nav.pc \in {"wait_for_matrix_date", "raised", "failed"}
            /\ nav.pc \in {"raised", "failed"} => nav.exception = "TimeoutException"
            /\ nav.pc = "failed" => nav.result = "error"

C22_Witness ==
    /\ nav.pc = "failed"
    /\ nav.navigation_count = MaxMonthNavigation
    /\ nav.exception = "TimeoutException"
    /\ nav.result = "error"
    /\ ~nav.driver

C24_DeviceModeHonoured ==
    /\ \A t \in Threads : job[t].driver => job[t].device_mode = job[t].requested
    /\ last_response.status = "started"
         => /\ last_response.device_mode \in {"mobile", "desktop"}
            /\ InFlight(n_requests) => last_response.device_mode = job[n_requests].requested

\* ---------------------------------------------- check_availability claims
\* a free cell with a valid interval that starts at the requested start and
\* whose duration (end minus start) is within 0.01 hours of the requested one
Qualifies(c, start_time, duration_hours) ==
    /\ IsInterval(c)
    /\ c.period[1] = start_time
    /\ WithinTolerance(Minutes(c.period[2]) - Minutes(c.period[1]), duration_hours)

Qualifying(p, a) == {i \in 1..Len(p) : Qualifies(p[i], a.start_time, a.duration_hours)}

FirstQualifying(p, a) == CHOOSE i \in Qualifying(p, a) : \A k \in Qualifying(p, a) : i <= k

\* C25: a call of check_availability returns the first cell in page order
\* that qualifies, and none when no cell qualifies; the cell 21:30-23:00
\* matches start 21:30 and 1.5 hours, the cell 20:00-21:30 does not match
\* start 21:30.
C25_FirstMatchingCell ==
    avail.result # NotCalled
      => /\ Qualifying(page, avail) = {} => avail.result = ReturnedNone
         /\ Qualifying(page, avail) # {}
              => avail.result = Returned(FirstQualifying(page, avail), "None")
         /\ (/\ page = <<[court |-> "A", period |-> <<"21:30", "23:00">>]>>
             /\ avail.start_time = "21:30"
             /\ avail.duration_hours = 1500)
              => avail.result = Returned(1, "None")
         /\ (/\ page = <<[court |-> "A", period |-> <<"20:00", "21:30">>]>>
             /\ avail.start_time = "21:30")
              => avail.result = ReturnedNone

\* C26: a free cell whose period text is no valid interval makes neither
\* check_availability nor find_consecutive_slots fail, and a qualifying cell
\* or a satisfying run elsewhere on the page is still returned.
C26_InvalidTextDiscarded ==
    /\ avail.result # Raised
    /\ find_result # Raised
    /\ (avail.result # NotCalled /\ Qualifying(page, avail) # {})
         => avail.result = Returned(FirstQualifying(page, avail), "None")
    /\ (find_result # NotCalled /\ SatisfyingRuns(page, find_args) # {})
         => (find_result.status = "returned" /\ find_result.slot # 0)

\* ------------------------------------------------- status queries

\* C27: a status query can start whenever the event loop is free, whatever the
\* job is doing (it never waits for the job), every step of it can always
\* proceed, each field it returns is the tracker's field at the moment it is
\* read, and the query changes neither the tracker nor the job.
C27_StatusAlwaysServable ==
    /\ [](/\ (api_pc = "idle") => ENABLED get_status_running
          /\ (api_pc = "status_result") => ENABLED get_status_result
          /\ (api_pc = "status_started_at") => ENABLED get_status_started_at)
    /\ [][/\ (api_pc = "idle" /\ api_pc' = "status_result")
               => /\ status_response'.running = booking_status.running
                  /\ booking_status' = booking_status /\ job' = job
          /\ (api_pc = "status_result" /\ api_pc' = "status_started_at")
               => /\ status_response'.result = booking_status.result
                  /\ booking_status' = booking_status /\ job' = job
          /\ (api_pc = "status_started_at" /\ api_pc' = "idle")
               => /\ status_response'.started_at = booking_status.started_at
                  /\ status_response'.served
                  /\ booking_status' = booking_status /\ job' = job]_vars

\* a query was served in full while the job was in flight
C27_Witness ==
    /\ status_response.served
    /\ status_response.running
    /\ status_response.started_at # NoTime
    /\ api_pc = "idle"
    /\ JobsInFlight # {}

NoStartAccepted == \A t \in Threads : job[t].pc = "idle"

\* C28: as long as no start request has been accepted the tracker is
\* {running = FALSE, result absent, started_at absent}, and a status query
\* returns exactly that.
C28_InitialStatus ==
    NoStartAccepted =>
        /\ booking_status = [running |-> FALSE, result |-> NoResult, started_at |-> NoTime]
        /\ status_response.running = FALSE
        /\ status_response.result = NoResult
        /\ status_response.started_at = NoTime

\* a query was served, and a start request was refused, before any job
C28_Witness ==
    /\ NoStartAccepted
    /\ status_response.served
    /\ n_requests > 0
    /\ last_response.code # 0

\* positions of a job that has set running but has not produced its result
BeforeOwnResult ==
    {"reset_result", "set_started_at", "check_inputs", "open", "login"}

\* C29: a status query that read running = TRUE, and reads the result while a
\* job has not yet produced its own result, reads an absent result (never the
\* result a previous job left).
C29_ResetIsOneStep ==
    [][(/\ api_pc = "status_result" /\ api_pc' = "status_started_at"
        /\ status_response.running
        /\ \E t \in Threads : job[t].pc \in BeforeOwnResult)
          => status_response'.result = NoResult]_vars

\* C30: the started_at of the response to an accepted start request is the
\* start time the job spawned by that request wrote into the tracker (so it is
\* never absent and never an earlier job's).
C30_ResponseStartedAt ==
    [][(api_pc = "respond" /\ api_pc' = "idle")
          => /\ last_response'.started_at # NoTime
             /\ last_response'.started_at = booking_status.started_at
             /\ job[n_requests].wrote_started_at]_vars

\* ------------------------------------------------- refused start requests

RejectionDetails ==
    {"Booking already in progress", "No configuration found",
     "BOOKER_USERNAME and BOOKER_PASSWORD must be set"}

\* C31: a start request that is refused (already running, no configuration,
\* credentials missing) leaves running, result and started_at of the tracker
\* unchanged and spawns no job thread; a request that is not refused spawns
\* exactly the job of that request.
C31_RejectionChangesNothing ==
    [][(n_requests' = n_requests + 1)
         => IF api_pc' = "idle"
              THEN /\ last_response'.status = "error"
                   /\ last_response'.detail \in RejectionDetails
                   /\ booking_status' = booking_status
                   /\ job' = job
              ELSE /\ job'[n_requests'].pc = "spawned"
                   /\ \A t \in Threads \ {n_requests'} : job'[t] = job[t]]_vars

\* a request was refused for its missing credentials after an earlier job had
\* left its result in the tracker
C31_Witness ==
    /\ last_response.code = 500
    /\ booking_status.result # NoResult
    /\ booking_status.started_at # NoTime
    /\ ~booking_status.running
    /\ n_requests = 2
    /\ job[2].pc = "idle"

\* ------------------------------------------------- missing input

\* `not booker_first_name or not player_candidates` (utils.py:105)
MissingInput(j) == j.booker_first_name = "" \/ j.player_candidates = <<>>

MissingInputResult == ErrorResult("booker_first_name and player_candidates must be provided")

\* C32: a job whose organizer name or candidate list is empty never opens a
\* browser session and never reaches login: from the input check it goes
\* straight to the end of the job with the missing-input failure recorded,
\* and the job ends with that failure still recorded and running = FALSE.
C32_MissingInputFailsEarly ==
    /\ [](\A t \in Threads :
            (job[t].pc \notin {"idle", "done"} /\ MissingInput(job[t]))
              => /\ job[t].pc \in {"spawned", "reset_result", "set_started_at",
                                   "check_inputs", "finally"}
                 /\ ~job[t].driver
                 /\ job[t].device_mode = ""
                 /\ job[t].pc = "finally" => booking_status.result = MissingInputResult)
    /\ [][\A t \in Threads :
            (MissingInput(job[t]) /\ job'[t] # job[t])
              => /\ job[t].pc = "check_inputs"
                    => (job'[t].pc = "finally" /\ booking_status'.result = MissingInputResult)
                 /\ job[t].pc = "finally"
                    => /\ job'[t].pc = "done"
                       /\ ~job'[t].driver
                       /\ ~booking_status'.running
                       /\ booking_status'.result = MissingInputResult]_vars

\* the job of a request with an organizer and an empty candidate list is at
\* its end, failure recorded
C32_Witness ==
    \E t \in Threads :
        /\ job[t].pc = "finally"
        /\ job[t].booker_first_name = Organizer
        /\ job[t].player_candidates = <<>>
        /\ booking_status.result = MissingInputResult
        /\ booking_status.running

\* ------------------------------------------------- book_slot

\* C33: whenever the rotation engine has been entered, the slot was clicked
\* first, then the option of the end_time control whose value is the found
\* run's end time was clicked, and only then the engine was entered.
C33_SlotEndTimeRotation ==
    (form.events # <<>> /\ form.events[Len(form.events)] = EnterRotation)
        => form.events = <<ClickSlot, SelectEndTime(form.end_time), EnterRotation>>

\* ------------------------------------------------- greedy stitching

\* C34: when find_consecutive_slots returns (slot, end), the run of cells from
\* slot to the cell that ends at `end` accumulates at least
\* int(duration_hours * 60) minutes, the same run without its last cell
\* accumulates fewer (no cell is absorbed once the requirement is met), and
\* `end` is the end of that last cell.
C34_GreedyMinimal ==
    (find_result.status = "returned" /\ find_result.slot # 0)
      => \E r \in Runs(page) :
            /\ r[1] = find_result.slot
            /\ RunEnd(page, r) = find_result.end_time
            /\ RunMinutes(page, r) >= NeededMinutes(find_args.duration_hours)
            /\ RunMinutes(page, SubSeq(r, 1, Len(r) - 1))
                 < NeededMinutes(find_args.duration_hours)

\* two cells were stitched for two hours from 21:00 and the cell that follows
\* them on the same court was left out
C34_Witness ==
    /\ find_args = [start_time |-> "21:00", duration_hours |-> 4]
    /\ find_result.status = "returned"
    /\ find_result.slot # 0
    /\ find_result.end_time = "23:00"
    /\ page[find_result.slot].period = <<"21:00", "22:00">>
    /\ \E i \in DOMAIN page :
          /\ page[i].court = page[find_result.slot].court
          /\ page[i].period = <<"23:00", "00:00">>

\* ------------------------------------------------- desktop month stepping

\* month-steps between two calendar months
MonthsBetween(a, b) == Abs((b.y * 12 + b.m) - (a.y * 12 + a.m))

Earlier(a, b) == a.y < b.y \/ (a.y = b.y /\ a.m < b.m)

\* C35: on desktop, `next` is clicked only when the displayed month is earlier
\* than the target's and `previous` only when it is later; and when the target
\* month is at most 24 month-steps from the month displayed at first, every
\* element is found and every click moves the header by one month,
\* navigate_to_date ends with the target day cell clicked.
C35_SteppingReachesTarget ==
    /\ [][(nav'.navigation_count = nav.navigation_count + 1)
            => LET target == ParseYMD(nav.target_date) IN
               /\ nav'.last_click = "next" => Earlier(nav.calendar, target)
               /\ nav'.last_click = "prev" => Earlier(target, nav.calendar)]_vars
    /\ [](LET target == ParseYMD(nav.target_date) IN
          (/\ nav.strategy = Desktop
           /\ nav.pc = "wait_for_matrix_date"
           /\ nav.faithful
           /\ MonthsBetween(nav.opened, target) <= MaxMonthNavigation)
            => nav.day_clicked)

\* ------------------------------------------------- rejection channels

\* C36: after a submit the JS alert is read first: when one is present its
\* text is the rejection signal and the popup is not looked up; without an
\* alert a displayed popup gives the signal; and the submission is taken as
\* accepted (the rotation goes on to the confirmation) only when neither an
\* alert nor a displayed popup was present.
C36_DialogBeforePopup ==
    [][\A t \in Threads :
         /\ (job[t].pc = "observe" /\ job'[t].pc = "handle")
              => /\ ~job'[t].alert.is_none
                      => (job'[t].error_text = job'[t].alert /\ ~job'[t].popup_consulted)
                 /\ (job'[t].alert.is_none /\ job'[t].popup_shown)
                      => (~job'[t].error_text.is_none /\ job'[t].popup_consulted)
                 /\ (job'[t].alert.is_none /\ ~job'[t].popup_shown)
                      => job'[t].error_text.is_none
         /\ (job[t].pc = "handle" /\ job'[t].pc = "confirm")
              => (job[t].alert.is_none /\ ~job[t].popup_shown)]_vars

\* C37: within one job no submit carries a selection of three names that an
\* earlier submit of the same job carried and that was rejected.
C37_NoOscillation ==
    [][\A t \in Threads :
         job'[t].submits > job[t].submits => job[t].selected \notin job[t].rejected]_vars

\* C38: the result recorded from book_slot's return value is a success exactly
\* when the rotation returned three selected names after a submission that was
\* answered by no rejection signal; every other result a job records is an
\* error.
C38_SuccessExactly ==
    /\ [](booking_status.result = NoResult
            \/ booking_status.result.status \in {"success", "error"})
    /\ [][\A t \in Threads :
            /\ (job[t].pc = "map_result" /\ job'[t].pc # "map_result")
                 => ((booking_status'.result.status = "success")
                       <=> (/\ Len(job[t].ret) = 3
                            /\ job[t].submits >= 1
                            /\ job[t].signal = "none"))
            /\ (/\ job[t].pc # "map_result"
                /\ job'[t] # job[t]
                /\ booking_status'.result # booking_status.result
                /\ booking_status'.result # NoResult)
                 => booking_status'.result.status = "error"]_vars

\* ------------------------------------------------- cells that end at midnight

MidnightCourt ==
    {<<[court |-> c, period |-> <<"22:00", "23:00">>],
       [court |-> c, period |-> <<"23:00", "00:00">>]>> : c \in Courts}

\* C39: find_consecutive_slots counts a cell that ends at 00:00 up to midnight
\* (23:00-00:00 is 60 minutes): the cells 22:00-23:00 and 23:00-00:00 of one
\* court satisfy a request for 2.0 hours from 22:00, with the first cell and
\* the end 00:00 returned; no run of cells of a searched page accumulates a
\* negative number of minutes, and no cell counts a negative number.
C39_MidnightCounts ==
    /\ SecondsDiv60("23:00", "00:00") = 60
    /\ (/\ find_result # NotCalled
        /\ page \in MidnightCourt
        /\ find_args = [start_time |-> "22:00", duration_hours |-> 4])
         => find_result = Returned(1, "00:00")
    /\ \A i \in DOMAIN page :
          IsInterval(page[i]) => SecondsDiv60(page[i].period[1], page[i].period[2]) >= 0
    /\ find_result # NotCalled
         => \A r \in Runs(page) : RunMinutes(page, r) >= 0
    /\ (find_result.status = "returned" /\ find_result.end_time = "00:00")
         => \E r \in SatisfyingRuns(page, find_args) :
               /\ r[1] = find_result.slot
               /\ RunEnd(page, r) = "00:00"
               /\ SecondsDiv60(page[r[Len(r)]].period[1], "00:00")
                    = 1440 - Minutes(page[r[Len(r)]].period[1])

\* two hours from 22:00 were found across midnight's cell, with the cells in
\* the other order on the page
C39_Witness ==
    /\ find_args = [start_time |-> "22:00", duration_hours |-> 4]
    /\ find_result.status = "returned"
    /\ find_result.end_time = "00:00"
    /\ find_result.slot = 2
    /\ Len(page) = 2
    /\ page[1].period = <<"23:00", "00:00">>

====
